---- MODULE Spec2Model ----
(***************************************************************************)
(* The parallel indexing engine of Nominatim.                              *)
(*                                                                         *)
(*   Indexer      src/nominatim/indexer/indexer.py   the scheduler: the    *)
(*                rank-stratified sequence of passes, and one pass over a  *)
(*                pool of asynchronous connections (find_free_thread).     *)
(*   IndexWorker  src/nominatim/indexer/worker.py    the slice generator   *)
(*                of one worker connection.                                *)
(*                                                                         *)
(* The asynchronous connection (db/async_connection.py, DBConnection) is   *)
(* not part of the sources at hand; it is modelled from its contract in    *)
(* section 4.1 of the specification. The database server is the            *)
(* environment: it completes or fails the command in flight on a           *)
(* connection at any time.                                                 *)
(***************************************************************************)
EXTENDS Integers, Sequences, FiniteSets, TLC

\* ------------------------------------------------------------------ bounds
\* The largest number of worker connections (Indexer.num_threads).
MaxThreads == 2
\* The number of rows in the tables.
NumRows == 4
\* Stand-in for the 100000 commands after which find_free_thread refreshes
\* the connections (indexer.py:343), scaled so that the refresh happens.
RefreshAfter == 2
\* Stand-in for the 10000 rows after which a worker opens its connection
\* again (worker.py:30).
ReconnectAfter == 2
\* The longest slice a pool hands to a worker (300 ids in the pool).
MaxSlice == 3
\* The largest batch size a slice is processed with.
MaxBatch == 2

\* The largest number of phrases passed to update_special_phrases.
MaxPhrases == 2
\* The number of rows of the word table above which no further call is
\* made.
MaxWordRows == 5
MaxWikiPhrases == 1
\* The number of analyzers that add country names, and the number of calls
\* each of them makes.
NumAnalyzers == 2
MaxCalls == 2
\* The capacity of the cache and the number of gets made of it.
LruMaxSize == 2
MaxGets == 4
\* The capacity of the postcode cache of the legacy analyzer (32 in the
\* program), the capacity of the caches of the ICU analyzer (32 and 1024 in
\* the program), and the number of places an analyzer processes.
PostcodeMaxSize == 2
FunctoolsMaxSize == 1
MaxPlaces == 3
\* The largest number of matches _process_xml_content handles in one import.
MaxMatches == 2

Rows == 1..NumRows
Threads == 1..MaxThreads

\* ------------------------------------------------------- program constants
MaxRank == 30
MinAddressRank == 1
BoundaryMinRank == 4
BoundaryMaxRank == 26
BatchDefault == 1
BatchMany == 20

\* ----------------------------------------------------------------- helpers
Min(a, b) == IF a < b THEN a ELSE b
Max(a, b) == IF a > b THEN a ELSE b
Range(s) == {s[i] : i \in DOMAIN s}
\* Python's range(a, b) as a sequence.
PyRange(a, b) == [i \in 1..Max(b - a, 0) |-> a + i - 1]
\* Python's s[:n] and s[n:] on sequences.
Take(s, n) == SubSeq(s, 1, Min(n, Len(s)))
Drop(s, n) == SubSeq(s, Min(n, Len(s)) + 1, Len(s))

VARIABLES
    \* the database
    kind,           \* row -> its table, ranks and class (never changes)
    status,         \* row -> indexed_status (> 0: to be indexed)
    conn,           \* connection -> state of the asynchronous connection
    indexer_conn,   \* Indexer.conn, the connection of the enumeration
    ro_conn,        \* index(): the connection for preprocessing
    \* the Indexer
    command,        \* the public operation that was called
    num_threads,    \* Indexer.num_threads
    pc,             \* where the Indexer is
    stage,          \* index of the running stage of the command
    passNo,         \* index of the running pass within the stage
    cursor,         \* rows the named cursor 'places' has still to return
    cursorOpen,     \* the named cursor is open
    places,         \* the batch fetched last
    progress,       \* rows added to the ProgressLogger in this pass
    ready,          \* find_free_thread: the list it iterates over
    pos,            \* find_free_thread: position in ready
    command_stat,   \* find_free_thread: commands handed out since refresh
    waitNo,         \* index of the thread waited for
    \* one IndexWorker
    runner,         \* IndexWorker.runner
    worker_conn,    \* IndexWorker.conn
    in_progress,    \* IndexWorker.in_progress is a generator (not None)
    at,             \* where the generator _process_slice stands
    ids,            \* _process_slice: ids
    batch_size,     \* _process_slice: batch_size
    idx,            \* _process_slice: idx
    done,           \* _process_slice: done
    todo,           \* _process_slice: todo
    _place_count,   \* IndexWorker._place_count
    ret,            \* what the last call of continue_slice returned
    \* history, for stating the properties
    passLog,        \* the passes started so far, in order
    stageLog,       \* the stages started so far, in order
    enumerated,     \* rows the cursor returned in this pass
    issued,         \* row -> number of UPDATE commands of this pass with it
    applied,        \* rows whose UPDATE has completed in this pass
    overlap,        \* a perform hit a connection with a command in flight
    bypassed,       \* thread -> commands given to other threads since it is free
    reported,       \* sum of the positive results of continue_slice in this slice
    observed,       \* rows whose completion the running call has seen
    sent,           \* commands the running call of continue_slice has sent
    returned,       \* continue_slice has returned and nothing was called since
    on_conn,        \* rows updated over the worker's connection since it was opened
    reopened,       \* the worker's connection has been opened again
    batches,        \* the batches of the UPDATE commands of this slice or pass, in order
    prefetch,       \* the prefetch of this slice: "none", "sent" or "done"
    fetched,        \* the rows the prefetch of this slice returned
    \* the name analyzer and the word table
    word,           \* row of the word table -> number of times it is stored
    visible,        \* the word table as the other connections see it
    tpc,            \* where update_special_phrases is
    phrases,        \* update_special_phrases: the argument
    to_add,         \* update_special_phrases: to_add
    to_delete,      \* update_special_phrases: to_delete
    repeat,         \* the argument is the one of the call before
    \* add_country_names, by analyzer
    country_rows,   \* (word_token, country_code) -> number of rows of word with them
    variant,        \* the class of the analyzer: "legacy" or "icu"
    apc,            \* where add_country_names is: "idle", "insert" or "done"
    acode,          \* add_country_names: country_code
    anames,         \* add_country_names: names
    asnap,          \* the rows the running INSERT sees
    aadded,         \* the number of rows the last INSERT stored
    arepeat,        \* the arguments are those of the analyzer's call before
    acalls,         \* the number of calls made
    overlapped,     \* two INSERTs have run at the same time
    \* one _LRU cache
    lru_data,       \* data: the list of the items <<key, value>>, the oldest first
    lru_maxsize,    \* maxsize
    lru_key,        \* the key of the last get
    lru_before,     \* data before the last get
    lru_generated,  \* the number of calls of the generator in the last get
    lru_value,      \* the value the last get returned
    lru_gets,       \* the number of gets made
    \* process_place and tokenize
    scenario,       \* the class of the analyzers: "legacy" or "icu"
    pcache,         \* the data of the _LRU of postcodes of the legacy analyzer
    pcache_before,  \* pcache before the last call
    addr_cache,     \* the cache of _get_addr_terms: its keys <<analyzer, name>>
    addr_before,    \* addr_cache before the last call
    street_cache,   \* the cache of _get_street_place_terms: its keys <<analyzer, name>>
    postcode_cache, \* the cache of _create_postcode_id: its keys <<analyzer, postcode>>
    last_place,     \* the place of the last call
    analyzer,       \* the analyzer of the last call
    used_by,        \* analyzer -> the workers that have called it
    queries,        \* the queries of the last call, in order
    token_info,     \* the token information the last call returned
    raised,         \* the last call raised an exception
    processed,      \* the number of calls made
    \* the 'index' command
    args,           \* the arguments of the command line
    cli,            \* where UpdateIndex.run is
    indexed,        \* the run has set import_status.indexed to true
    completed,      \* the operations of the Indexer that have returned
    \* the importer of the special phrases
    revision,       \* "old": tools/special_phrases.py, "new": special_phrases_importer.py
    ipc,            \* where the importer is
    matched,        \* the number of matches _process_xml_content has handled
    last_entry,     \* the match handled last
    class_type_pairs, \* import_from_wiki: class_type_pairs
    pairs_todo,     \* the pairs the loop over class_type_pairs has still to visit
    word_phrases,   \* SpecialPhrasesImporter.word_phrases
    sanity_args,    \* the arguments of the last call of _check_sanity
    sanity_result,  \* what the last call of _check_sanity did
    ptables,        \* the names of the place_classtype tables of the database
    tables_before,  \* ptables when the import began
    table_phrases_to_delete,   \* SpecialPhrasesImporter.table_phrases_to_delete
    created,        \* the tables the import has created
    dropped,        \* the tables the import has dropped
    words_phrases_to_delete,   \* SpecialPhrasesImporter.words_phrases_to_delete
    words_phrases_still_exist, \* SpecialPhrasesImporter.words_phrases_still_exist
    \* check_database
    cpc,            \* where check_database is
    check_conn,     \* conn: "none", "open" or "bad" (a _BadConnection)
    closes,         \* the number of calls of conn.close()
    check_no,       \* the place in CHECKLIST of the check to run next
    check_log,      \* the checks run and what they returned, in the order run
    overall_result, \* overall_result
    check_return,   \* what check_database has returned, -1 before it has
    bad_used        \* a check has called a method of a _BadConnection

dbVars == <<kind, status, conn>>
connVars == <<indexer_conn, ro_conn>>
ctlVars == <<command, num_threads, pc, stage, passNo>>
passVars == <<cursor, cursorOpen, places, progress, ready, pos, command_stat, waitNo>>
workerVars == <<runner, worker_conn, in_progress, at, ids, batch_size, idx, done, todo,
                _place_count, ret>>
histVars == <<passLog, stageLog, enumerated, issued, applied, overlap>>
callVars == <<reported, observed, sent, returned>>
sliceVars == <<on_conn, reopened, batches, prefetch, fetched>>
engineVars == <<dbVars, connVars, ctlVars, passVars, workerVars, histVars, callVars, sliceVars>>
phraseVars == <<word, visible, tpc, phrases, to_add, to_delete, repeat>>
countryVars == <<country_rows, variant, apc, acode, anames, asnap, aadded, arepeat, acalls,
                 overlapped>>
lruVars == <<lru_data, lru_maxsize, lru_key, lru_before, lru_generated, lru_value, lru_gets>>
analyzerVars == <<scenario, pcache, pcache_before, addr_cache, addr_before, street_cache, postcode_cache,
                  last_place, analyzer, used_by, queries, token_info, raised, processed>>
tokenizerVars == <<phraseVars, countryVars, lruVars, analyzerVars>>
cliVars == <<args, cli, indexed, completed>>
schedVars == <<bypassed>>
importVars == <<revision, ipc, matched, last_entry, class_type_pairs, pairs_todo, word_phrases,
                sanity_args, sanity_result, ptables, tables_before, table_phrases_to_delete,
                created, dropped, words_phrases_to_delete, words_phrases_still_exist>>
checkVars == <<cpc, check_conn, closes, check_no, check_log, overall_result, check_return,
               bad_used>>
outerVars == <<tokenizerVars, cliVars, schedVars, importVars, checkVars>>
notPhraseVars == <<engineVars, cliVars, schedVars, importVars, checkVars, countryVars, lruVars, analyzerVars>>
notCountryVars == <<engineVars, cliVars, schedVars, importVars, checkVars, phraseVars, lruVars, analyzerVars>>
notLruVars == <<engineVars, cliVars, schedVars, importVars, checkVars, phraseVars, countryVars, analyzerVars>>
notAnalyzerVars == <<engineVars, cliVars, schedVars, importVars, checkVars, phraseVars, countryVars, lruVars>>
vars == <<engineVars, outerVars>>

\* ---------------------------------------------------------------- the rows
Row(tbl, ra, rs, bnd) ==
    [tbl |-> tbl, rank_address |-> ra, rank_search |-> rs, boundary |-> bnd]

\* The kinds of rows a table holds in the model.
RowKinds ==
    << Row("placex", 0, 0, FALSE),
       Row("placex", 4, 4, FALSE),
       Row("placex", 16, 16, TRUE),
       Row("placex", 30, 30, FALSE),
       Row("location_property_osmline", 0, 0, FALSE),
       Row("location_postcode", 0, 0, FALSE) >>

\* ------------------------------------------------------------- the runners
RankRunner(rank) == [name |-> "rank", rank |-> rank]
BoundaryRunner(rank) == [name |-> "boundary", rank |-> rank]
InterpolationRunner == [name |-> "interpolation", rank |-> 0]
PostcodeRunner == [name |-> "postcode", rank |-> 0]

Pass(obj, batch) == [runner |-> obj, batch |-> batch]

\* The WHERE clause of sql_count_objects / sql_get_objects of a runner.
Selects(obj, r) ==
    /\ status[r] > 0
    /\ CASE obj.name = "rank" ->
                kind[r].tbl = "placex" /\ kind[r].rank_address = obj.rank
         [] obj.name = "boundary" ->
                /\ kind[r].tbl = "placex"
                /\ kind[r].rank_search = obj.rank
                /\ kind[r].boundary
         [] obj.name = "interpolation" ->
                kind[r].tbl = "location_property_osmline"
         [] OTHER ->
                kind[r].tbl = "location_postcode"

\* sql_get_objects: the selected rows in the order of the ORDER BY (here:
\* by row number).
RECURSIVE SelectFrom(_, _)
SelectFrom(obj, r) ==
    IF r > NumRows THEN <<>>
    ELSE (IF Selects(obj, r) THEN <<r>> ELSE <<>>) \o SelectFrom(obj, r + 1)

sql_get_objects(obj) == SelectFrom(obj, 1)
sql_count_objects(obj) == Cardinality({r \in Rows : Selects(obj, r)})

\* ---------------------------------------------------------- the schedule
\* Mutant of index_by_rank: the loop over the lower ranks starts one rank
\* late.
index_by_rank_late(minrank, maxrank) ==
    LET maxr == Min(maxrank, MaxRank)
        ranks == PyRange(Max(MinAddressRank, minrank) + 1, maxr)
        lower == [i \in DOMAIN ranks |-> Pass(RankRunner(ranks[i]), BatchDefault)]
    IN  IF maxr = MaxRank
        THEN lower \o << Pass(RankRunner(0), BatchDefault),
                         Pass(InterpolationRunner, BatchMany),
                         Pass(RankRunner(MaxRank), BatchMany) >>
        ELSE lower \o << Pass(RankRunner(maxr), BatchDefault) >>

\* Mutant of index_by_rank: rank 30 is indexed before the interpolations.
index_by_rank_swapped(minrank, maxrank) ==
    LET maxr == Min(maxrank, MaxRank)
        ranks == PyRange(Max(MinAddressRank, minrank), maxr)
        lower == [i \in DOMAIN ranks |-> Pass(RankRunner(ranks[i]), BatchDefault)]
    IN  IF maxr = MaxRank
        THEN lower \o << Pass(RankRunner(0), BatchDefault),
                         Pass(RankRunner(MaxRank), BatchMany),
                         Pass(InterpolationRunner, BatchMany) >>
        ELSE lower \o << Pass(RankRunner(maxr), BatchDefault) >>

index_by_rank(minrank, maxrank) ==
    LET maxr == Min(maxrank, MaxRank)
        ranks == PyRange(Max(MinAddressRank, minrank), maxr)
        lower == [i \in DOMAIN ranks |-> Pass(RankRunner(ranks[i]), BatchDefault)]
    IN  IF maxr = MaxRank
        THEN lower \o << Pass(RankRunner(0), BatchDefault),
                         Pass(InterpolationRunner, BatchMany),
                         Pass(RankRunner(MaxRank), BatchMany) >>
        ELSE lower \o << Pass(RankRunner(maxr), BatchDefault) >>

\* Mutant of index_boundaries: the upper rank is included.
index_boundaries_inclusive(minrank, maxrank) ==
    LET ranks == PyRange(Max(minrank, BoundaryMinRank),
                         Min(maxrank, BoundaryMaxRank) + 1)
    IN  [i \in DOMAIN ranks |-> Pass(BoundaryRunner(ranks[i]), BatchDefault)]

index_boundaries(minrank, maxrank) ==
    LET ranks == PyRange(Max(minrank, BoundaryMinRank), Min(maxrank, BoundaryMaxRank))
    IN  [i \in DOMAIN ranks |-> Pass(BoundaryRunner(ranks[i]), BatchDefault)]

index_postcodes == << Pass(PostcodeRunner, BatchMany) >>

ByRank(minrank, maxrank) == [op |-> "index_by_rank", min |-> minrank, max |-> maxrank]
Boundaries(minrank, maxrank) == [op |-> "index_boundaries", min |-> minrank, max |-> maxrank]
Postcodes == [op |-> "index_postcodes", min |-> 0, max |-> 0]
Full == [op |-> "index_full", min |-> 0, max |-> 0]

\* Mutant of index_full: the boundaries are indexed after ranks 5 to 25.
index_full_boundaries_late ==
    << ByRank(0, 4), ByRank(5, 25), Boundaries(0, 30), ByRank(26, 30), Postcodes >>

\* The stages of index_full, in the order of its body.
index_full ==
    << ByRank(0, 4), Boundaries(0, 30), ByRank(5, 25), ByRank(26, 30), Postcodes >>

\* The stages a command consists of, and the passes of one stage.
StagesOf(cmd) == IF cmd.op = "index_full" THEN index_full ELSE << cmd >>

PassesOf(call) ==
    CASE call.op = "index_by_rank" -> index_by_rank(call.min, call.max)
      [] call.op = "index_boundaries" -> index_boundaries(call.min, call.max)
      [] OTHER -> index_postcodes

Stages == StagesOf(command)
Passes == PassesOf(Stages[stage])
CurPass == Passes[passNo]


\* ------------------------------------------------ the asynchronous connection
\* DBConnection: one non-blocking connection that carries one command at a
\* time. st is "none" (not opened), "idle" (no command), "busy" (command
\* sent, the server is working), "partial" (the server is working and a
\* part of its answer waits on the socket), "ready" (the server has
\* finished, the client has not looked yet), "failed" (the server has
\* answered with an error, the client has not looked yet) or "closed".
NoConnection == [st |-> "none", sql |-> "none", rows |-> <<>>]
Connected == [st |-> "idle", sql |-> "none", rows |-> <<>>]
Disconnected == [st |-> "closed", sql |-> "none", rows |-> <<>>]

\* A command was sent and the client has not yet seen it finish.
InFlight(cn) == cn.st \in {"busy", "partial", "ready", "failed"}
\* The server is still working on the command.
Working(cn) == cn.st \in {"busy", "partial"}
\* The socket is readable: an answer of the server is waiting.
Readable(cn) == cn.st \in {"partial", "ready", "failed"}
\* is_done() answers True; is_done() raises the error of the command.
IsDone(cn) == cn.st \in {"idle", "ready"}
IsFailed(cn) == cn.st = "failed"
\* wait() returns or raises: the server has answered.
Answered(cn) == ~Working(cn)
\* The connection after is_done() has answered False: what waited on the
\* socket has been read.
Polled(cn) == IF cn.st = "partial" THEN [cn EXCEPT !.st = "busy"] ELSE cn

\* perform(sql, args): the connection with the command in flight.
Perform(sql, rows) == [st |-> "busy", sql |-> sql, rows |-> rows]
\* close().
Close(cn) == IF cn.st = "none" THEN cn ELSE Disconnected

\* The server finishes the command in flight: an UPDATE sets
\* indexed_status = 0 in the rows it names.
Finished(cn) == [cn EXCEPT !.st = "ready"]
Failed(cn) == [cn EXCEPT !.st = "failed"]
Partly(cn) == [cn EXCEPT !.st = "partial"]
Updated(cn) == IF cn.sql = "update" THEN Range(cn.rows) ELSE {}
StatusAfter(cn) == [r \in Rows |-> IF r \in Updated(cn) THEN 0 ELSE status[r]]

\* ------------------------------------------------------------- the Indexer
\* Mutant of ThreadSeq: find_free_thread looks at the first thread only.
ThreadSeqFirstOnly == <<1>>

\* self.threads, the list find_free_thread starts from and select() picks
\* from.
ThreadSeq == [i \in 1..num_threads |-> i]

\* Mutant of ReadableThread: select() returns a connection only when its
\* command has failed.
ReadableThreadFailedOnly(t) == IsFailed(conn[t])

\* "select.select(self.threads, [], [])": the connections it returns.
ReadableThread(t) == Readable(conn[t])

\* The server finishes or fails the command in flight on a thread.
ServerComplete(c) ==
    /\ Working(conn[c])
    /\ conn' = [conn EXCEPT ![c] = Finished(conn[c])]
    /\ status' = StatusAfter(conn[c])
    /\ applied' = applied \cup Updated(conn[c])
    /\ UNCHANGED <<outerVars, sliceVars, connVars, kind, ctlVars, passVars, workerVars, passLog, stageLog, enumerated, issued,
                   overlap, callVars>>

ServerFail(c) ==
    /\ Working(conn[c])
    /\ conn' = [conn EXCEPT ![c] = Failed(conn[c])]
    /\ UNCHANGED <<outerVars, sliceVars, connVars, kind, status, ctlVars, passVars, workerVars, histVars, callVars>>

\* The server sends a part of its answer.
ServerPartial(c) ==
    /\ conn[c].st = "busy"
    /\ conn' = [conn EXCEPT ![c] = Partly(conn[c])]
    /\ UNCHANGED <<outerVars, sliceVars, connVars, kind, status, ctlVars, passVars, workerVars, histVars, callVars>>

\* Mutant of Raise: the command that failed is sent again and the pass goes
\* on.
RaiseRetried ==
    /\ conn' = [c \in Threads |->
                  IF IsFailed(conn[c]) THEN Perform(conn[c].sql, conn[c].rows)
                  ELSE conn[c]]
    /\ UNCHANGED <<outerVars, sliceVars, connVars, kind, status, ctlVars, passVars, workerVars,
                   passLog, stageLog, enumerated, issued, applied, callVars>>

\* An exception leaves the pass: the cursors are closed, the finally clause
\* of the stage closes the connections, and the error reaches the caller.
Raise ==
    /\ pc' = "error"
    /\ conn' = [c \in Threads |-> Close(conn[c])]
    /\ indexer_conn' = "closed"
    /\ ro_conn' = IF ro_conn = "open" THEN "closed" ELSE ro_conn
    /\ cursorOpen' = FALSE
    /\ UNCHANGED <<outerVars, sliceVars, kind, status, command, num_threads, stage, passNo, cursor, places,
                   progress, ready, pos, command_stat, waitNo, workerVars,
                   passLog, stageLog, enumerated, issued, applied, callVars>>

\* _setup_connections when a connection cannot be opened: psycopg2.connect
\* fails (opened = 0), or the DBConnection of a thread does after the
\* connections before it were opened. The call stands before the try
\* statement of the stage, so the exception leaves the stage at once.
_setup_connections_fails ==
    /\ pc = "setup"
    /\ \E opened \in 0..num_threads :
         /\ indexer_conn' = IF opened >= 1 THEN "open" ELSE indexer_conn
         /\ conn' = [c \in Threads |-> IF c < opened THEN Connected ELSE conn[c]]
    /\ pc' = "error"
    /\ stageLog' = Append(stageLog, Stages[stage])
    /\ UNCHANGED <<outerVars, sliceVars, ro_conn, kind, status, command, num_threads, stage, passNo, passVars,
                   workerVars, passLog, enumerated, issued, applied, overlap, callVars>>

_setup_connections ==
    /\ pc = "setup"
    /\ indexer_conn' = "open"
    /\ conn' = [c \in Threads |-> IF c <= num_threads THEN Connected ELSE NoConnection]
    /\ pc' = "index"
    /\ stageLog' = Append(stageLog, Stages[stage])
    /\ UNCHANGED <<outerVars, sliceVars, ro_conn, kind, status, command, num_threads, stage, passNo, passVars,
                   workerVars, passLog, enumerated, issued, applied, overlap, callVars>>

\* index(obj, batch) up to the first fetch: the count, the progress meter,
\* the named cursor and the generator of free threads.
index_begin ==
    /\ pc = "index"
    /\ passNo <= Len(Passes)
    /\ passLog' = Append(passLog, CurPass)
    /\ progress' = 0
    /\ enumerated' = {}
    /\ issued' = [r \in Rows |-> 0]
    /\ applied' = {}
    /\ IF sql_count_objects(CurPass.runner) > 0
       THEN /\ cursor' = sql_get_objects(CurPass.runner)
            /\ cursorOpen' = TRUE
            /\ ready' = ThreadSeq
            /\ pos' = 1
            /\ command_stat' = 0
            /\ ro_conn' = "open"
            /\ pc' = "fetch"
       ELSE /\ pc' = "index_done"
            /\ UNCHANGED <<cursor, cursorOpen, ready, pos, command_stat, ro_conn>>
    /\ batches' = <<>>
    /\ bypassed' = [t \in Threads |-> 0]
    /\ UNCHANGED <<tokenizerVars, cliVars, importVars, checkVars, on_conn, reopened, prefetch, fetched, indexer_conn, dbVars, command,
                   num_threads, stage, passNo, places, waitNo,
                   workerVars, stageLog, overlap, callVars>>

\* places = cur.fetchmany(batch); progress.add(len(places)).
fetchmany ==
    /\ pc = "fetch"
    /\ places' = Take(cursor, CurPass.batch)
    /\ cursor' = Drop(cursor, CurPass.batch)
    /\ IF places' = <<>>
       THEN /\ cursorOpen' = FALSE
            /\ ro_conn' = "closed"
            /\ waitNo' = 1
            /\ pc' = "wait"
            /\ UNCHANGED <<progress, enumerated>>
       ELSE /\ progress' = progress + Len(places')
            /\ enumerated' = enumerated \cup Range(places')
            /\ pc' = "find"
            /\ UNCHANGED <<cursorOpen, waitNo, ro_conn>>
    /\ UNCHANGED <<outerVars, sliceVars, indexer_conn, dbVars, command, num_threads, stage, passNo, ready, pos, command_stat,
                   workerVars, passLog, stageLog, issued, applied, overlap, callVars>>

\* Mutant of ThreadIsFree: every thread of the list is yielded.
ThreadIsFreeUnchecked(t) == TRUE

\* find_free_thread: "if thread.is_done()", the test that lets a thread be
\* yielded.
ThreadIsFree(t) == IsDone(conn[t])

\* The threads that were free when thread u was given a command have
\* been passed over once more; u and the threads with a command in flight
\* have not.
Bypassed(u) ==
    [t \in Threads |->
       IF t # u /\ t <= num_threads /\ IsDone(conn[t]) THEN bypassed[t] + 1 ELSE 0]

\* find_free_thread, one step of "for thread in ready": the poll of the
\* next thread of the list. A thread that is free is yielded, and index()
\* sends the UPDATE of the fetched places on it; perform fails on a
\* connection whose command is still in flight.
find_free_thread ==
    /\ pc = "find"
    /\ pos <= Len(ready)
    /\ \/ /\ IsFailed(conn[ready[pos]])
          /\ Raise
          /\ UNCHANGED overlap
       \/ /\ ~IsFailed(conn[ready[pos]])
          /\ ~ThreadIsFree(ready[pos])
          /\ conn' = [conn EXCEPT ![ready[pos]] = Polled(conn[ready[pos]])]
          /\ pos' = pos + 1
          /\ UNCHANGED <<outerVars, sliceVars, connVars, kind, status, ctlVars, cursor, cursorOpen, places, progress, ready,
                         command_stat, waitNo, workerVars, histVars, callVars>>
       \/ /\ ~IsFailed(conn[ready[pos]])
          /\ ThreadIsFree(ready[pos])
          /\ IF Working(conn[ready[pos]])
             THEN /\ overlap' = TRUE
                  /\ Raise
             ELSE /\ command_stat' = command_stat + 1
                  /\ pos' = pos + 1
                  /\ conn' = [conn EXCEPT ![ready[pos]] = Perform("update", places)]
                  /\ issued' = [r \in Rows |->
                                  IF r \in Range(places) THEN issued[r] + 1 ELSE issued[r]]
                  /\ batches' = Append(batches, places)
                  /\ bypassed' = Bypassed(ready[pos])
                  /\ pc' = "fetch"
                  /\ UNCHANGED <<tokenizerVars, cliVars, importVars, checkVars, on_conn, reopened, prefetch, fetched, connVars, kind, status, command, num_threads, stage, passNo, cursor,
                                 cursorOpen, places, progress, ready, waitNo, workerVars,
                                 passLog, stageLog, enumerated, applied, overlap, callVars>>

\* find_free_thread at the end of the list: select() blocks until a
\* connection is readable and returns the readable ones.
find_free_thread_select ==
    /\ pc = "find"
    /\ pos > Len(ready)
    /\ command_stat <= RefreshAfter
    /\ \E c \in Range(ThreadSeq) : ReadableThread(c)
    /\ ready' = SelectSeq(ThreadSeq, ReadableThread)
    /\ pos' = 1
    /\ UNCHANGED <<outerVars, sliceVars, connVars, dbVars, ctlVars, cursor, cursorOpen, places, progress,
                   command_stat, waitNo, workerVars, histVars, callVars>>

\* find_free_thread at the end of the list, after enough commands: every
\* connection is waited for and opened again.
find_free_thread_refresh ==
    /\ pc = "find"
    /\ pos > Len(ready)
    /\ command_stat > RefreshAfter
    /\ waitNo' = 1
    /\ pc' = "refresh"
    /\ UNCHANGED <<outerVars, sliceVars, connVars, dbVars, command, num_threads, stage, passNo, cursor, cursorOpen,
                   places, progress, ready, pos, command_stat, workerVars, histVars,
                   callVars>>

\* "while not thread.is_done(): thread.wait()", then thread.connect().
refresh_thread ==
    /\ pc = "refresh"
    /\ Answered(conn[waitNo])
    /\ \/ /\ IsFailed(conn[waitNo])
          /\ Raise
          /\ UNCHANGED overlap
       \/ /\ IsDone(conn[waitNo])
          /\ conn' = [conn EXCEPT ![waitNo] = Connected]
          /\ IF waitNo < num_threads
             THEN /\ waitNo' = waitNo + 1
                  /\ UNCHANGED <<pc, ready, pos, command_stat>>
             ELSE /\ command_stat' = 0
                  /\ ready' = ThreadSeq
                  /\ pos' = 1
                  /\ pc' = "find"
                  /\ UNCHANGED waitNo
          /\ UNCHANGED <<outerVars, sliceVars, connVars, kind, status, command, num_threads, stage, passNo, cursor,
                         cursorOpen, places, progress, workerVars, histVars, callVars>>

\* Mutant of LastWaited: index() waits for the first thread only.
LastWaitedFirstOnly == Min(1, num_threads)

\* "for thread in self.threads": the last thread index() waits for.
LastWaited == num_threads

\* "for thread in self.threads: thread.wait()" after the cursor is
\* exhausted: one wait.
wait_thread ==
    /\ pc = "wait"
    /\ Answered(conn[waitNo])
    /\ \/ /\ IsFailed(conn[waitNo])
          /\ Raise
          /\ UNCHANGED overlap
       \/ /\ IsDone(conn[waitNo])
          /\ conn' = [conn EXCEPT ![waitNo] = Connected]
          /\ IF waitNo < LastWaited
             THEN waitNo' = waitNo + 1 /\ UNCHANGED pc
             ELSE pc' = "index_done" /\ UNCHANGED waitNo
          /\ UNCHANGED <<outerVars, sliceVars, connVars, kind, status, command, num_threads, stage, passNo, cursor,
                         cursorOpen, places, progress, ready, pos, command_stat,
                         workerVars, histVars, callVars>>

\* progress.done(): index() returns and the stage goes on to its next pass.
index_done ==
    /\ pc = "index_done"
    /\ passNo' = passNo + 1
    /\ pc' = "index"
    /\ UNCHANGED <<outerVars, sliceVars, connVars, dbVars, command, num_threads, stage, passVars, workerVars, histVars,
                   callVars>>

\* The finally clause of a stage: _close_connections.
_close_connections ==
    /\ pc = "index"
    /\ passNo > Len(Passes)
    /\ conn' = [c \in Threads |-> Close(conn[c])]
    /\ indexer_conn' = "closed"
    /\ pc' = IF command.op = "index_full" THEN "analyse" ELSE "done"
    /\ UNCHANGED <<outerVars, sliceVars, ro_conn, kind, status, command, num_threads, stage, passNo, passVars,
                   workerVars, histVars, callVars>>

\* index_full: _analyse_db_if after a stage, then the next stage.
_analyse_db_if ==
    /\ pc = "analyse"
    /\ IF stage < Len(Stages)
       THEN /\ stage' = stage + 1
            /\ passNo' = 1
            /\ pc' = "setup"
       ELSE /\ pc' = "done"
            /\ UNCHANGED <<stage, passNo>>
    /\ UNCHANGED <<outerVars, sliceVars, connVars, dbVars, command, num_threads, passVars, workerVars, histVars, callVars>>


\* ------------------------------------- the word table and special phrases
\* LegacyNameAnalyzer.update_special_phrases
\* (src/nominatim/tokenizer/legacy_tokenizer.py). A row of word is modelled
\* by its columns word, class, type and operator; word_id comes from the
\* sequence seq_word and word_token from the stored procedure
\* make_standard_name, and neither is read by update_special_phrases.
NULL == "NULL"

\* The labels of the phrases passed in, and what the normalizer makes of
\* them: it folds the case.
RawLabels == {"A", "a", "B"}
normalize(label) ==
    CASE label = "A" -> "a"
      [] label = "B" -> "b"
      [] OTHER -> label
Labels == {normalize(l) : l \in RawLabels}

\* The operators of the phrases passed in, and the classes and types.
Operators == {"in", "near", "-"}
PhraseKinds ==
    { <<"amenity", "pub">>, <<"place", "village">>,
      <<"place", "house">>, <<"place", "postcode">> }

\* A phrase is the tuple (label, class, type, operator). The phrases passed
\* in: every label with every operator for one class and type, and one
\* phrase of each other class and type, one of them with the columns of the
\* housenumber term that word holds.
Phrase(label, cls, typ, oper) == <<label, cls, typ, oper>>
AllPhrases ==
    {Phrase(l, "amenity", "pub", o) : l \in RawLabels, o \in Operators}
      \cup { Phrase("A", "place", "village", "-"),
             Phrase("12", "place", "house", "-"),
             Phrase("B", "place", "postcode", "in") }

WordRow(label, cls, typ, oper) ==
    [word |-> label, class |-> cls, type |-> typ, operator |-> oper]

\* Rows that are not special phrases: a housenumber term, a postcode term
\* and the token of an ordinary name.
HousenumberRow == WordRow("12", "place", "house", NULL)
PostcodeRow == WordRow("99", "place", "postcode", NULL)
NameRow == WordRow("a", NULL, NULL, NULL)

WordRows ==
    {WordRow(l, k[1], k[2], o) : l \in Labels, k \in PhraseKinds, o \in {"in", "near", NULL}}
      \cup {HousenumberRow, PostcodeRow, NameRow}

\* The rows stored at least once, and the number of stored rows.
Stored(w) == {x \in WordRows : w[x] > 0}
RECURSIVE CountRows(_, _)
CountRows(w, xs) ==
    IF xs = {} THEN 0
    ELSE LET x == CHOOSE y \in xs : TRUE IN w[x] + CountRows(w, xs \ {x})
TotalRows(w) == CountRows(w, WordRows)

\* SQL comparison "col != val": not true when the column is NULL.
SqlNotEqual(col, val) == col # NULL /\ col # val

IsPhraseRowAnyClass(x) == x.class # NULL

\* "WHERE class != 'place' OR (type != 'house' AND type != 'postcode')".
IsPhraseRow(x) ==
    \/ SqlNotEqual(x.class, "place")
    \/ SqlNotEqual(x.type, "house") /\ SqlNotEqual(x.type, "postcode")

\* "norm_phrases = set(((self.normalize(p[0]), p[1], p[2], p[3]) ...))".
norm_phrases(ps) == {Phrase(normalize(p[1]), p[2], p[3], p[4]) : p \in ps}

\* "existing_phrases.add((label, cls, typ, oper or '-'))" for the rows of
\* the SELECT.
existing_phrases(w) ==
    {Phrase(x.word, x.class, x.type, IF x.operator = NULL THEN "-" ELSE x.operator) :
        x \in {y \in Stored(w) : IsPhraseRow(y)}}

\* The row the INSERT stores for a phrase:
\* "CASE WHEN op in ('in', 'near') THEN op ELSE null END".
InsertedRow(p) ==
    WordRow(p[1], p[2], p[3], IF p[4] \in {"in", "near"} THEN p[4] ELSE NULL)

\* The rows the DELETE removes for a phrase: "WHERE word = name and
\* class = in_class and type = in_type and ((op = '-' and operator is null)
\* or op = operator)".
DeleteMatches(x, p) ==
    /\ x.word = p[1]
    /\ x.class # NULL /\ x.class = p[2]
    /\ x.type # NULL /\ x.type = p[3]
    /\ \/ p[4] = "-" /\ x.operator = NULL
       \/ x.operator # NULL /\ p[4] = x.operator

\* Mutant of RemoveMatches: the operator is compared with "operator = %s"
\* for every phrase.
RemoveMatchesByEquality(x, p) ==
    /\ x.word = p[1]
    /\ x.class # NULL /\ x.class = p[2]
    /\ x.type # NULL /\ x.type = p[3]
    /\ x.operator # NULL /\ x.operator = p[4]

\* SpecialPhrasesImporter._remove_non_existent_phrases_from_db
\* (src/nominatim/tools/special_phrases.py): the rows its DELETE removes for
\* a phrase, "operator IS null" for the operator '-' and "operator = %s"
\* for the others.
RemoveMatches(x, p) ==
    /\ x.word = p[1]
    /\ x.class # NULL /\ x.class = p[2]
    /\ x.type # NULL /\ x.type = p[3]
    /\ IF p[4] = "-" THEN x.operator = NULL
       ELSE x.operator # NULL /\ x.operator = p[4]

\* "self.conn.autocommit = True": every statement of the analyzer's
\* connection is a transaction of its own. Commit(w, v) is what the other
\* connections see after a statement that left this connection's table w,
\* when they saw v before it.
autocommit == TRUE
Commit(w, v) == IF autocommit THEN w ELSE v

\* ------------------------------------------------------ add_country_names
\* LegacyNameAnalyzer.add_country_names (legacy_tokenizer.py) and
\* LegacyIcuNameAnalyzer.add_country_names (legacy_icu_tokenizer.py). The
\* analyzers, each with a connection of its own.
Analyzers == 1..NumAnalyzers

\* The country codes and the lists of names passed in: "DEU" does not match
\* [a-z][a-z], "A" and "a" have the same token, "." has an empty one.
CountryCodes == {"de", "DEU"}
NameLists == { <<>>, <<"A">>, <<"a">>, <<"A", "a">>, <<".">> }

\* "re.fullmatch(r'[a-z][a-z]', country_code)".
IsCountryCode(cc) == cc \in {"de"}

\* make_standard_word(name), and the stored procedure make_standard_name(n)
\* of the legacy analyzer: the transliteration folds the case and drops
\* punctuation.
make_standard_word(name) == IF name = "." THEN "" ELSE normalize(name)
make_standard_name(name) == make_standard_word(name)

\* "' ' || name": the word_token of a country name.
CountryToken(t) == " " \o t
CountryTokens == {CountryToken(make_standard_word(n)) : n \in {"A", "a", "."}}
CountryPairs == CountryTokens \X CountryCodes

\* The rows of "FROM (...) WHERE NOT EXISTS (SELECT * FROM word WHERE
\* word_token = ... and country_code = ...)": one per element of tokens
\* (a list) whose pair is in no row that the statement sees.
GuardedInsert(tokens, cc, seen) ==
    [pr \in CountryPairs |->
        IF pr[2] = cc /\ seen[pr] = 0
        THEN Cardinality({i \in DOMAIN tokens : tokens[i] = pr[1]})
        ELSE 0]

\* The number of rows in a table of country names.
RECURSIVE CountPairs(_, _)
CountPairs(rows, prs) ==
    IF prs = {} THEN 0
    ELSE LET pr == CHOOSE y \in prs : TRUE IN rows[pr] + CountPairs(rows, prs \ {pr})
CountRowsOf(rows) == CountPairs(rows, CountryPairs)

\* A list of the elements of a set.
RECURSIVE ListOf(_)
ListOf(set) ==
    IF set = {} THEN <<>>
    ELSE LET x == CHOOSE y \in set : TRUE IN <<x>> \o ListOf(set \ {x})

\* The tokens the legacy analyzer hands to its INSERT,
\* "' ' || make_standard_name(n) ... FROM unnest(%s)n": one per name.
LegacyTokens(names) == [i \in DOMAIN names |-> CountryToken(make_standard_name(names[i]))]

\* The tokens the ICU analyzer hands to its INSERT:
\* "set((self.make_standard_word(n) for n in names))" and
\* "filtered = [(n, ) for n in normalized_names if n]".
IcuTokens(names) ==
    LET normalized_names == {make_standard_word(n) : n \in Range(names)}
        filtered == ListOf({n \in normalized_names : n # ""})
    IN  [i \in DOMAIN filtered |-> CountryToken(filtered[i])]

\* No add_country_names runs.
CountryOff ==
    /\ country_rows = [pr \in CountryPairs |-> 0]
    /\ variant = [a \in Analyzers |-> "legacy"]
    /\ apc = [a \in Analyzers |-> "idle"]
    /\ acode = [a \in Analyzers |-> "de"]
    /\ anames = [a \in Analyzers |-> <<>>]
    /\ asnap = [a \in Analyzers |-> country_rows]
    /\ aadded = [a \in Analyzers |-> 0]
    /\ arepeat = [a \in Analyzers |-> FALSE]
    /\ acalls = [a \in Analyzers |-> 0]
    /\ overlapped = FALSE

\* No special phrases are updated.
PhraseOff ==
    /\ word = [x \in WordRows |-> 0]
    /\ visible = [x \in WordRows |-> 0]
    /\ tpc = "off"
    /\ phrases = {}
    /\ to_add = {}
    /\ to_delete = {}
    /\ repeat = FALSE

\* ------------------------------------------------------------------- _LRU
\* _LRU (legacy_tokenizer.py): data is an OrderedDict, modelled as the list
\* of its items <<key, value>>, the oldest first.
None == "None"
LruKeys == {"k1", "k2", "k3"}
LruResults == {None, "v1", "v2"}

\* OrderedDict: the keys, "key in data", data.get(key), move_to_end(key),
\* popitem(last=False) and data[key] = value.
DictKeys(data) == {data[i][1] : i \in DOMAIN data}
DictGet(data, key) ==
    IF key \in DictKeys(data)
    THEN LET i == CHOOSE j \in DOMAIN data : data[j][1] = key IN data[i][2]
    ELSE None
DictWithout(data, key) == SelectSeq(data, LAMBDA item : item[1] # key)
DictMoveToEnd(data, key) == Append(DictWithout(data, key), <<key, DictGet(data, key)>>)
DictPopFirst(data) == Tail(data)
DictSet(data, key, value) ==
    IF key \in DictKeys(data)
    THEN [i \in DOMAIN data |-> IF data[i][1] = key THEN <<key, value>> ELSE data[i]]
    ELSE Append(data, <<key, value>>)

\* _LRU.__init__(maxsize, init_data): "self.data = init_data or
\* OrderedDict()" and "if init_data is not None and len(init_data) >
\* maxsize: self.maxsize = len(init_data)".
LruInitData(init_data) == init_data
LruInitMaxsize(maxsize, init_data) == IF Len(init_data) > maxsize THEN Len(init_data) ELSE maxsize

\* _LRU.get finds the key: "value = self.data.get(key)" and
\* "if value is not None".
LruHitAnyValue(data, key) == key \in DictKeys(data)
LruHit(data, key) == DictGet(data, key) # None

\* _LRU.get(key, generator), where the generator returns result: the data
\* afterwards, and the value returned.
LruGetData(data, maxsize, key, result) ==
    IF LruHit(data, key) THEN DictMoveToEnd(data, key)
    ELSE LET kept == IF Len(data) >= maxsize THEN DictPopFirst(data) ELSE data
         IN  DictSet(kept, key, result)
LruGetValue(data, key, result) ==
    IF LruHit(data, key) THEN DictGet(data, key) ELSE result

\* No cache is in use.
LruOff ==
    /\ lru_data = <<>>
    /\ lru_maxsize = LruMaxSize
    /\ lru_key = None
    /\ lru_before = <<>>
    /\ lru_generated = 0
    /\ lru_value = None
    /\ lru_gets = 0

\* ------------------------------------------- process_place and tokenize
\* LegacyNameAnalyzer.process_place (legacy_tokenizer.py) and
\* LegacyIcuNameAnalyzer.tokenize (legacy_icu_tokenizer.py). The values of
\* a place are lists of characters, so that the code's tests of their
\* characters can be made.
Absent == <<"absent">>
NoValue == <<"None">>
AsciiLetters ==
    {"a", "b", "c", "d", "e", "f", "g", "h", "i", "j", "k", "l", "m",
     "n", "o", "p", "q", "r", "s", "t", "u", "v", "w", "x", "y", "z",
     "A", "B", "C", "D", "E", "F", "G", "H", "I", "J", "K", "L", "M",
     "N", "O", "P", "Q", "R", "S", "T", "U", "V", "W", "X", "Y", "Z"}

\* str.upper() and str.lower() on the characters of the inputs.
UpperChar(ch) ==
    CASE ch = "a" -> "A" [] ch = "b" -> "B" [] ch = "c" -> "C"
      [] ch = "d" -> "D" [] ch = "e" -> "E" [] ch = "u" -> "U"
      [] OTHER -> ch
LowerChar(ch) ==
    CASE ch = "A" -> "a" [] ch = "B" -> "b" [] ch = "C" -> "c"
      [] ch = "D" -> "d" [] ch = "E" -> "e" [] ch = "U" -> "u"
      [] OTHER -> ch
Upper(str) == [i \in DOMAIN str |-> UpperChar(str[i])]
Lower(str) == [i \in DOMAIN str |-> LowerChar(str[i])]

\* str.strip(): the white space of the inputs is the blank and the newline.
Whitespace == {" ", "\n"}
RECURSIVE LStrip(_)
LStrip(str) == IF str # <<>> /\ Head(str) \in Whitespace THEN LStrip(Tail(str)) ELSE str
RECURSIVE RStrip(_)
RStrip(str) ==
    IF str # <<>> /\ str[Len(str)] \in Whitespace THEN RStrip(SubSeq(str, 1, Len(str) - 1)) ELSE str
Strip(str) == RStrip(LStrip(str))

\* "re.search(r'[:,;]', postcode)" finds something.
HasSeparator(str, seps) == \E i \in DOMAIN str : str[i] \in seps

\* "re.split(r'[;,]', hnr)": the parts of hnr between the separators.
RECURSIVE Split(_, _)
Split(str, seps) ==
    IF ~HasSeparator(str, seps) THEN <<str>>
    ELSE LET i == CHOOSE j \in DOMAIN str :
                    str[j] \in seps /\ \A k \in 1..(j - 1) : str[k] \notin seps
         IN  <<SubSeq(str, 1, i - 1)>> \o Split(SubSeq(str, i + 1, Len(str)), seps)

\* "re.fullmatch(r'[A-Za-z][A-Za-z]', country_feature)".
MatchesTwoLetters(cf) == Len(cf) = 2 /\ cf[1] \in AsciiLetters /\ cf[2] \in AsciiLetters

\* str(n) for a natural number n.
DigitChars == <<"0", "1", "2", "3", "4", "5", "6", "7", "8", "9">>
RECURSIVE Str(_)
Str(n) == IF n < 10 THEN <<DigitChars[n + 1]>> ELSE Str(n \div 10) \o <<DigitChars[(n % 10) + 1]>>

\* _cached_housenumbers: "SELECT i, ARRAY[getorcreate_housenumber_id(
\* i::text)]::text FROM generate_series(1, 100) as i", keyed by str(i).
CachedNumbers == 1..100
Token(fn, arg) == [fn |-> fn, arg |-> arg]
NoToken == Token("none", <<>>)
HousenumberToken(n) == Token("cached", <<Str(n)>>)
get_housenumber(number) ==
    IF \E n \in CachedNumbers : Str(n) = number
    THEN HousenumberToken(CHOOSE n \in CachedNumbers : Str(n) = number)
    ELSE NoToken

\* A call of the database: the function and its argument.
Query(fn, arg) == <<fn, arg>>

\* The parts of the housenumbers: "for hnr in hnrs:
\* simple_list.extend((x.strip() for x in re.split(r'[;,]', hnr)))".
RECURSIVE SimpleList(_)
SimpleList(hnrs) ==
    IF hnrs = <<>> THEN <<>>
    ELSE LET parts == Split(Head(hnrs), {";", ","})
         IN  [i \in DOMAIN parts |-> Strip(parts[i])] \o SimpleList(Tail(hnrs))

\* The list sent to create_housenumbers: "if len(simple_list) > 1:
\* simple_list = list(set(simple_list))".
HousenumberList(hnrs) ==
    LET simple_list == SimpleList(hnrs)
    IN  IF Len(simple_list) > 1 THEN ListOf(Range(simple_list)) ELSE simple_list

CacheAnswersAnyLength(hnrs) == Len(hnrs) >= 1 /\ get_housenumber(hnrs[1]) # NoToken

\* _TokenInfo.add_housenumbers and _get_housenumber_ids answer from the
\* precomputed tokens: "if len(hnrs) == 1:
\* token = self.cache.get_housenumber(hnrs[0]); if token is not None".
CacheAnswers(hnrs) == Len(hnrs) = 1 /\ get_housenumber(hnrs[1]) # NoToken

PostcodeIsCleanOfSemicolons(postcode) == ~HasSeparator(postcode, {";"})

\* "re.search(r'[:,;]', postcode) is None".
PostcodeIsClean(postcode) == ~HasSeparator(postcode, {":", ",", ";"})

\* "postcode.strip().upper()".
NormalizedPostcode(postcode) == Upper(Strip(postcode))

\* A place: the name, the country_feature, the postcode, the values of the
\* keys housenumber, streetnumber and conscriptionnumber, and the value of
\* one other address key; Absent where the place has none, and NoValue for
\* a postcode key without a value. The keys street and place are Absent.
Place(name, cf, postcode, hnrs, addr) ==
    [name |-> name, country_feature |-> cf, postcode |-> postcode, hnrs |-> hnrs, addr |-> addr,
     street |-> Absent, place |-> Absent]
\* The place with the address keys street and place.
WithStreetPlace(pl, street, place) == [pl EXCEPT !.street = street, !.place = place]

PostcodeValues ==
    { <<"a", "b">>, <<" ", "A", "B", " ">>, <<"c">>,
      <<"a", ";", "b">>, <<"a", ":", "b">>, <<"a", ",", "b">> }
HousenumberLists ==
    { << <<"7">> >>, << <<"1", "0", "0">> >>, << <<"1", "0", "1">> >>, << <<"0">> >>,
      << <<" ", "7">> >>, << <<"7", ";", "8">> >>, << <<"7", ",", " ", "7">> >>,
      << <<"7">>, <<"8">> >>, << <<"7">>, <<"7">> >> }
CountryFeatures ==
    { <<"d", "e">>, <<"D", "E">>, <<"d", "e", "u">>, <<"d", "1">>, <<"d">> }
AddressTerms == { <<"x">>, <<"y">> }

\* The places handed to process_place: none has another address key.
LegacyPlaces ==
    {Place(Absent, Absent, p, <<>>, Absent) : p \in PostcodeValues \cup {NoValue}}
      \cup {Place(Absent, Absent, Absent, h, Absent) : h \in HousenumberLists}
      \cup {Place(<<"n">>, cf, Absent, <<>>, Absent) : cf \in CountryFeatures \cup {Absent}}
      \cup { Place(<<"n">>, <<"d", "e", "u">>, <<"a", ";", "b">>, << <<"7">> >>, Absent),
             Place(<<"n">>, <<"d", "e">>, <<"a", "b">>, << <<"7", ";", "8">> >>, Absent),
             Place(Absent, <<"d", "e">>, <<"c">>, << <<"1", "0", "1">> >>, Absent) }

\* The places handed to tokenize.
IcuPlaces ==
    {Place(Absent, Absent, p, <<>>, Absent) :
        p \in {<<"a", "b">>, <<" ", "A", "B", " ">>, <<"a", ";", "b">>, <<"a", ":", "b">>, NoValue}}
      \cup {Place(Absent, Absent, Absent, h, Absent) :
              h \in {<< <<"7">> >>, << <<"1", "0", "1">> >>, << <<"7", ";", "8">> >>,
                     << <<"7">>, <<"7">> >>}}
      \cup {Place(<<"n">>, cf, Absent, <<>>, Absent) :
              cf \in {<<"d", "e">>, <<"d", "e", "u">>, Absent}}
      \cup {Place(Absent, Absent, Absent, <<>>, t) : t \in AddressTerms}
      \cup { Place(<<"n">>, <<"d", "1">>, <<"a", ",", "b">>, << <<"7">> >>, <<"x">>) }
      \cup { WithStreetPlace(Place(Absent, Absent, Absent, <<>>, Absent), <<"S">>, Absent),
             WithStreetPlace(Place(Absent, Absent, Absent, <<>>, Absent), Absent, <<"s">>),
             WithStreetPlace(Place(Absent, Absent, Absent, <<>>, <<"x">>), <<"s">>, <<"p">>),
             WithStreetPlace(Place(Absent, Absent, Absent, <<>>, Absent), <<>>, Absent) }

\* The token information a call returns: the entries it has set.
NoTokenInfo ==
    [names |-> NoToken, hnr_tokens |-> NoToken, hnr |-> <<>>,
     street_match |-> NoToken, street_search |-> NoToken,
     place_match |-> NoToken, place_search |-> NoToken]

\* The queries of the name part of process_place and of tokenize: the
\* tokens of the names, and add_country_names when the country_feature
\* consists of two letters.
NameQueries(place, fn) ==
    IF place.name = Absent THEN <<>>
    ELSE <<Query("names", <<place.name>>)>> \o
         IF place.country_feature # Absent /\ MatchesTwoLetters(place.country_feature)
         THEN <<Query(fn, <<Lower(place.country_feature)>>)>>
         ELSE <<>>

\* The housenumber part: the entries of the token information and the
\* queries.
HousenumberInfo(hnrs) ==
    IF hnrs = <<>> THEN [hnr_tokens |-> NoToken, hnr |-> <<>>]
    ELSE IF CacheAnswers(hnrs)
         THEN [hnr_tokens |-> get_housenumber(hnrs[1]), hnr |-> <<hnrs[1]>>]
         ELSE [hnr_tokens |-> Token("create_housenumbers", HousenumberList(hnrs)),
               hnr |-> HousenumberList(hnrs)]
HousenumberQueries(hnrs) ==
    IF hnrs = <<>> \/ CacheAnswers(hnrs) THEN <<>>
    ELSE <<Query("create_housenumbers", HousenumberList(hnrs))>>

\* functools.lru_cache(maxsize) around a method: one cache for all
\* instances of the class, keyed by the arguments of the call, self
\* included. The cache is the list of its keys, the oldest first.
FunctoolsHit(cache, key) == key \in Range(cache)
FunctoolsCall(cache, maxsize, key) ==
    IF FunctoolsHit(cache, key)
    THEN SelectSeq(cache, LAMBDA k : k # key) \o <<key>>
    ELSE (IF Len(cache) >= maxsize THEN Tail(cache) ELSE cache) \o <<key>>

\* The analyzers of the runners, and the workers of a pass.
IcuAnalyzers == 1..NumAnalyzers
PoolWorkers == 1..MaxThreads

\* "self.tokenizer = tokenizer.get_name_analyzer()": the analyzer a worker
\* uses when it calls sql_index_places of runner r is the one of the runner.
RunnerAnalyzer(r, w) == r

\* No place is processed.
AnalyzerOff ==
    /\ scenario = "off"
    /\ pcache = <<>>
    /\ pcache_before = <<>>
    /\ addr_cache = <<>>
    /\ addr_before = <<>>
    /\ street_cache = <<>>
    /\ postcode_cache = <<>>
    /\ last_place = Place(Absent, Absent, Absent, <<>>, Absent)
    /\ analyzer = 1
    /\ used_by = [a \in IcuAnalyzers |-> {}]
    /\ queries = <<>>
    /\ token_info = NoTokenInfo
    /\ raised = FALSE
    /\ processed = 0

\* No analyzer is running.
TokenizerOff ==
    /\ CountryOff
    /\ PhraseOff
    /\ LruOff
    /\ AnalyzerOff

\* ------------------------------------------------------ the 'index' command
\* UpdateIndex.run (src/nominatim/clicmd/index.py). The arguments:
\* --no-boundaries, --boundaries-only, --minrank and --maxrank.
Args(nb, bo, minrank, maxrank) ==
    [no_boundaries |-> nb, boundaries_only |-> bo, minrank |-> minrank, maxrank |-> maxrank]

IsFullIndexingAnyRank(a) == ~a.no_boundaries /\ ~a.boundaries_only

\* "if not args.no_boundaries and not args.boundaries_only and
\* args.minrank == 0 and args.maxrank == 30".
IsFullIndexing(a) ==
    ~a.no_boundaries /\ ~a.boundaries_only /\ a.minrank = 0 /\ a.maxrank = MaxRank

\* No 'index' command runs.
CliOff ==
    /\ args = Args(FALSE, FALSE, 0, MaxRank)
    /\ cli = "off"
    /\ indexed = FALSE
    /\ completed = {}

\* ------------------------------------------- the special phrases importer
\* SpecialPhrasesImporter in its two revisions,
\* src/nominatim/tools/special_phrases.py ("old") and
\* src/nominatim/tools/special_phrases/special_phrases_importer.py ("new").
\* The strings of the wiki are lists of characters.
WordChars == AsciiLetters \cup Range(DigitChars) \cup {"_"}
IsWord(str) == \A i \in DOMAIN str : str[i] \in WordChars

\* "self.sanity_check_pattern = re.compile(r'^\w+$')" and
\* "sanity_check_pattern.findall(...)" finds something: '$' matches at the
\* end of the string and also before a newline that ends the string.
SanityPatternFinds(str) ==
    \/ str # <<>> /\ IsWord(str)
    \/ /\ Len(str) >= 2
       /\ str[Len(str)] = "\n"
       /\ IsWord(SubSeq(str, 1, Len(str) - 1))

\* _check_sanity(lang, phrase_class, phrase_type): what the call does. The
\* old revision raises UsageError or returns None, the new one returns
\* False or True.
_check_sanity(rev, phrase_class, phrase_type) ==
    IF ~SanityPatternFinds(phrase_class) \/ ~SanityPatternFinds(phrase_type)
    THEN (IF rev = "old" THEN "UsageError" ELSE "False")
    ELSE (IF rev = "old" THEN "None" ELSE "True")

\* "re.sub(r'\"|&quot;', '', phrase_type)".
QuotEntity == <<"&", "q", "u", "o", "t", ";">>
RECURSIVE RemoveQuotes(_)
RemoveQuotes(str) ==
    IF str = <<>> THEN <<>>
    ELSE IF Head(str) = "\"" THEN RemoveQuotes(Tail(str))
    ELSE IF Len(str) >= Len(QuotEntity) /\ SubSeq(str, 1, Len(QuotEntity)) = QuotEntity
         THEN RemoveQuotes(SubSeq(str, Len(QuotEntity) + 1, Len(str)))
    ELSE <<Head(str)>> \o RemoveQuotes(Tail(str))

\* "'-' if phrase_operator not in ('near', 'in') else phrase_operator".
Near == <<"n", "e", "a", "r">>
In == <<"i", "n">>
Dash == <<"-">>
PhraseOperator(op) == IF op \notin {Near, In} THEN Dash ELSE op

\* One match of occurence_pattern: label, class, type and operator as the
\* groups of the pattern hold them.
Match(label, cls, typ, oper) == [label |-> label, class |-> cls, type |-> typ, operator |-> oper]
NoMatch == Match(<<>>, <<>>, <<>>, <<>>)

\* The first lines of the loop of _process_xml_content: the stripped
\* groups, the operator and the type without quotes.
PhraseOf(match) ==
    [label |-> Strip(match.label),
     class |-> Strip(match.class),
     type |-> RemoveQuotes(Strip(match.type)),
     operator |-> PhraseOperator(Strip(match.operator))]

\* phrase-settings.json: the black list and the white list, class -> types.
BlackList == (<<"x">> :> {<<"c">>})
WhiteList == (<<"h">> :> {<<"c">>})

\* "phrase_class in self.black_list.keys() and
\* phrase_type in self.black_list[phrase_class]".
Blacklisted(ph) == ph.class \in DOMAIN BlackList /\ ph.type \in BlackList[ph.class]
\* "phrase_class in self.white_list.keys() and
\* phrase_type not in self.white_list[phrase_class]".
NotWhitelisted(ph) == ph.class \in DOMAIN WhiteList /\ ph.type \notin WhiteList[ph.class]

\* "'place_classtype_{}_{}'.format(phrase_class, phrase_type)".
TableName(phrase_class, phrase_type) ==
    <<"place_classtype_">> \o phrase_class \o <<"_">> \o phrase_type

\* No import runs.
ImporterOff ==
    /\ revision = "new"
    /\ ipc = "off"
    /\ matched = 0
    /\ last_entry = NoMatch
    /\ class_type_pairs = {}
    /\ pairs_todo = {}
    /\ word_phrases = {}
    /\ sanity_args = <<"new", <<>>, <<>>>>
    /\ sanity_result = "not called"
    /\ ptables = {}
    /\ tables_before = {}
    /\ table_phrases_to_delete = {}
    /\ created = {}
    /\ dropped = {}
    /\ words_phrases_to_delete = {}
    /\ words_phrases_still_exist = {}

\* check_database is not running.
CheckOff ==
    /\ cpc = "off"
    /\ check_conn = "none"
    /\ closes = 0
    /\ check_no = 1
    /\ check_log = <<>>
    /\ overall_result = 0
    /\ check_return = -1
    /\ bad_used = FALSE

\* ------------------------------------------------------------------ inputs
MinRankArgs == {0, 5, 26}
MaxRankArgs == {0, 4, 25, 30}
Commands ==
    {Full, Postcodes}
      \cup {ByRank(m, n) : m \in MinRankArgs, n \in MaxRankArgs}
      \cup {Boundaries(m, n) : m \in MinRankArgs, n \in MaxRankArgs}

\* The tables: every row is of one of the kinds, and rows that differ only
\* in their number are taken once.
Tables ==
    {[r \in Rows |-> RowKinds[k[r]]] :
        k \in {f \in [Rows -> DOMAIN RowKinds] :
                 \A r \in Rows : r < NumRows => f[r] <= f[r + 1]}}

\* No Indexer is running.
IndexerOff ==
    /\ conn = [c \in Threads |-> NoConnection]
    /\ indexer_conn = "none"
    /\ ro_conn = "none"
    /\ command = Postcodes
    /\ num_threads = 1
    /\ pc = "off"
    /\ stage = 1
    /\ passNo = 1
    /\ cursor = <<>>
    /\ cursorOpen = FALSE
    /\ places = <<>>
    /\ progress = 0
    /\ ready = <<>>
    /\ pos = 1
    /\ command_stat = 0
    /\ waitNo = 1
    /\ passLog = <<>>
    /\ stageLog = <<>>
    /\ enumerated = {}

\* No worker exists.
WorkerOff ==
    /\ runner = PostcodeRunner
    /\ worker_conn = NoConnection
    /\ in_progress = FALSE
    /\ at = "off"
    /\ ids = <<>>
    /\ batch_size = 1
    /\ idx = 0
    /\ done = 0
    /\ todo = <<>>
    /\ _place_count = 0
    /\ ret = 0
    /\ reported = 0
    /\ observed = {}
    /\ sent = 0
    /\ returned = FALSE
    /\ on_conn = 0
    /\ reopened = FALSE
    /\ batches = <<>>
    /\ prefetch = "none"
    /\ fetched = <<>>

\* An Indexer has been constructed and one of its operations is called.
Init ==
    /\ kind \in Tables
    /\ status = [r \in Rows |-> 1]
    /\ conn = [c \in Threads |-> NoConnection]
    /\ indexer_conn = "none"
    /\ ro_conn = "none"
    /\ command \in Commands
    /\ num_threads \in Threads
    /\ pc = "setup"
    /\ stage = 1
    /\ passNo = 1
    /\ cursor = <<>>
    /\ cursorOpen = FALSE
    /\ places = <<>>
    /\ progress = 0
    /\ ready = <<>>
    /\ pos = 1
    /\ command_stat = 0
    /\ waitNo = 1
    /\ passLog = <<>>
    /\ stageLog = <<>>
    /\ enumerated = {}
    /\ issued = [r \in Rows |-> 0]
    /\ applied = {}
    /\ overlap = FALSE
    /\ bypassed = [t \in Threads |-> 0]
    /\ ImporterOff
    /\ CheckOff
    /\ WorkerOff
    /\ TokenizerOff
    /\ CliOff

Server == \E c \in Threads : ServerComplete(c) \/ ServerFail(c) \/ ServerPartial(c)

Next ==
    \/ _setup_connections
    \/ _setup_connections_fails
    \/ index_begin
    \/ fetchmany
    \/ find_free_thread
    \/ find_free_thread_select
    \/ find_free_thread_refresh
    \/ refresh_thread
    \/ wait_thread
    \/ index_done
    \/ _close_connections
    \/ _analyse_db_if
    \/ Server

Spec == Init /\ [][Next]_vars

\* ---------------------------------------------------------- the IndexWorker
\* Mutant of HasObjectInfo: the prefetch is sent for every runner.
HasObjectInfoAlways(r) == TRUE

\* hasattr(self.runner, 'sql_get_object_info'): every runner of runners.py
\* but the PostcodeRunner has it.
HasObjectInfo(r) == r.name # "postcode"

\* Python's s[a:b].
Slice(s, a, b) == SubSeq(s, a + 1, Min(b, Len(s)))

\* The orders in which the server may return the rows of a SELECT that has
\* no ORDER BY.
Orders(s) == {p \in [1..Len(s) -> Range(s)] : \A i, j \in 1..Len(s) : i # j => p[i] # p[j]}

\* The slices a pool hands to a worker: rows in the order of the cursor.
SliceOf(rs) == SelectSeq([i \in 1..NumRows |-> i], LAMBDA r : r \in rs)
Slices == {SliceOf(rs) : rs \in {x \in SUBSET Rows : x # {} /\ Cardinality(x) <= MaxSlice}}

\* The server finishes or fails the command in flight on the worker's
\* connection.
WorkerServerComplete ==
    /\ Working(worker_conn)
    /\ worker_conn' = Finished(worker_conn)
    /\ status' = StatusAfter(worker_conn)
    /\ applied' = applied \cup Updated(worker_conn)
    /\ on_conn' = on_conn + Cardinality(Updated(worker_conn))
    /\ UNCHANGED <<outerVars, reopened, batches, prefetch, fetched, connVars, kind, conn, ctlVars, passVars, runner, in_progress, at, ids, batch_size,
                   idx, done, todo, _place_count, ret, passLog, stageLog, enumerated, issued,
                   overlap, callVars>>

WorkerServerFail ==
    /\ Working(worker_conn)
    /\ worker_conn' = Failed(worker_conn)
    /\ UNCHANGED <<outerVars, sliceVars, connVars, dbVars, ctlVars, passVars, runner, in_progress, at, ids, batch_size,
                   idx, done, todo, _place_count, ret, histVars, callVars>>

WorkerServerPartial ==
    /\ worker_conn.st = "busy"
    /\ worker_conn' = Partly(worker_conn)
    /\ UNCHANGED <<outerVars, sliceVars, connVars, dbVars, ctlVars, passVars, runner, in_progress, at, ids, batch_size,
                   idx, done, todo, _place_count, ret, histVars, callVars>>

\* An exception leaves continue_slice; the pool closes the worker.
WorkerRaise ==
    /\ at' = "error"
    /\ worker_conn' = Close(worker_conn)
    /\ UNCHANGED <<outerVars, sliceVars, connVars, dbVars, ctlVars, passVars, runner, in_progress, ids, batch_size, idx,
                   done, todo, _place_count, ret, passLog, stageLog, enumerated, issued, applied,
                   reported, returned>>

\* The scheduler's loop: start_slice is called on a worker directly after
\* its continue_slice has returned -1.
WorkerIsIdle == returned /\ ret = -1

\* Mutant of SliceEnded: a result of 0 ends the slice as well.
SliceEndedEarly(d) == d <= 0

\* continue_slice: "if done < 0: self.in_progress = None".
SliceEnded(d) == d < 0

\* Where the worker stands after the generator has yielded d at a place.
AfterYield(d, place) == IF SliceEnded(d) THEN "idle" ELSE place

\* Mutant of MustReconnect: the count of processed rows is never looked at.
MustReconnectNever == FALSE

\* start_slice: "if self._place_count > 10000".
MustReconnect == _place_count > ReconnectAfter

\* start_slice(ids, batch_size), called by the pool on an idle worker.
start_slice ==
    /\ at = "idle"
    /\ WorkerIsIdle
    /\ \E s \in Slices, b \in 1..MaxBatch :
         /\ ids' = s
         /\ batch_size' = b
         /\ enumerated' = Range(s)
    /\ IF MustReconnect
       THEN /\ worker_conn' = Connected
            /\ _place_count' = 0
            /\ on_conn' = 0
            /\ reopened' = TRUE
       ELSE UNCHANGED <<worker_conn, _place_count, on_conn, reopened>>
    /\ in_progress' = TRUE
    /\ at' = "start"
    /\ issued' = [r \in Rows |-> 0]
    /\ applied' = {}
    /\ reported' = 0
    /\ returned' = FALSE
    /\ batches' = <<>>
    /\ prefetch' = "none"
    /\ fetched' = <<>>
    /\ UNCHANGED <<outerVars, connVars, dbVars, ctlVars, passVars, runner, idx, done, todo, ret, passLog,
                   stageLog, overlap, observed, sent>>

\* continue_slice() on a worker without a slice: -1.
continue_slice_idle ==
    /\ at = "idle"
    /\ ~in_progress
    /\ ret' = -1
    /\ observed' = {}
    /\ sent' = 0
    /\ returned' = TRUE
    /\ UNCHANGED <<outerVars, sliceVars, connVars, dbVars, ctlVars, passVars, runner, worker_conn, in_progress, at, ids,
                   batch_size, idx, done, todo, _place_count, histVars, reported>>

\* continue_slice(), first next() of the generator: the prefetch is sent if
\* the runner has one, else the batch loop is entered.
continue_slice_start ==
    /\ at = "start"
    /\ observed' = {}
    /\ returned' = FALSE
    /\ \/ /\ HasObjectInfo(runner)
          /\ InFlight(worker_conn)
          /\ overlap' = TRUE
          /\ at' = "error"
          /\ worker_conn' = Close(worker_conn)
          /\ UNCHANGED <<outerVars, sliceVars, connVars, dbVars, ctlVars, passVars, runner, in_progress, ids, batch_size,
                         idx, done, todo, _place_count, ret, passLog, stageLog, enumerated,
                         issued, applied, reported, sent>>
       \/ /\ HasObjectInfo(runner)
          /\ ~InFlight(worker_conn)
          /\ worker_conn' = Perform("select", ids)
          /\ sent' = 1
          /\ at' = "prefetch_poll"
          /\ prefetch' = "sent"
          /\ UNCHANGED <<outerVars, on_conn, reopened, batches, fetched, connVars, dbVars, ctlVars, passVars, runner, in_progress, ids, batch_size,
                         idx, done, todo, _place_count, ret, histVars, reported>>
       \/ /\ ~HasObjectInfo(runner)
          /\ idx' = 0
          /\ done' = 0
          /\ sent' = 0
          /\ at' = "loop"
          /\ UNCHANGED <<outerVars, sliceVars, connVars, dbVars, ctlVars, passVars, runner, worker_conn, in_progress, ids,
                         batch_size, todo, _place_count, ret, histVars, reported>>

\* continue_slice(), next() of a generator suspended in one of its waits.
continue_slice_resume ==
    /\ at \in {"prefetch_wait", "update_wait"}
    /\ observed' = {}
    /\ sent' = 0
    /\ returned' = FALSE
    /\ IF at = "prefetch_wait"
       THEN at' = "prefetch_poll" /\ UNCHANGED done
       ELSE at' = "update_poll" /\ done' = 0
    /\ UNCHANGED <<outerVars, sliceVars, connVars, dbVars, ctlVars, passVars, runner, worker_conn, in_progress, ids,
                   batch_size, idx, todo, _place_count, ret, histVars, reported>>

\* continue_slice(), next() of a generator that has yielded its last
\* count: it yields -1 and continue_slice drops the generator.
continue_slice_end ==
    /\ at = "final"
    /\ ret' = -1
    /\ in_progress' = ~SliceEnded(-1)
    /\ at' = AfterYield(-1, "exhausted")
    /\ observed' = {}
    /\ sent' = 0
    /\ returned' = TRUE
    /\ UNCHANGED <<outerVars, sliceVars, connVars, dbVars, ctlVars, passVars, runner, worker_conn, ids, batch_size, idx,
                   done, todo, _place_count, histVars, reported>>

\* _process_slice: "while not self.conn.is_done(): yield 0", then
\* "ids = self.conn.fetchall()".
prefetch_poll ==
    /\ at = "prefetch_poll"
    /\ \/ /\ IsFailed(worker_conn)
          /\ WorkerRaise
          /\ UNCHANGED <<overlap, observed, sent>>
       \/ /\ ~IsFailed(worker_conn)
          /\ ~IsDone(worker_conn)
          /\ worker_conn' = Polled(worker_conn)
          /\ ret' = 0
          /\ in_progress' = ~SliceEnded(0)
          /\ at' = AfterYield(0, "prefetch_wait")
          /\ returned' = TRUE
          /\ UNCHANGED <<outerVars, sliceVars, connVars, dbVars, ctlVars, passVars, runner, ids,
                         batch_size, idx, done, todo, _place_count, histVars, reported,
                         observed, sent>>
       \/ /\ IsDone(worker_conn)
          /\ worker_conn' = Connected
          /\ ids' \in Orders(worker_conn.rows)
          /\ idx' = 0
          /\ done' = 0
          /\ at' = "loop"
          /\ prefetch' = "done"
          /\ fetched' = ids'
          /\ UNCHANGED <<outerVars, on_conn, reopened, batches, connVars, dbVars, ctlVars, passVars, runner, in_progress, batch_size, todo,
                         _place_count, ret, histVars, callVars>>

\* Mutant of NextBatch: the batch runs one row into the next one.
NextBatchOverlapping == Slice(ids, idx, idx + batch_size + 1)

\* _process_slice: "end_idx = idx + batch_size; todo = ids[idx:end_idx]".
NextBatch == Slice(ids, idx, idx + batch_size)

\* Mutant of NextIdx: the next batch starts one row after the last one
\* started.
NextIdxByOne == idx + 1

\* Mutant of NextIdx: the row after each batch is skipped.
NextIdxSkipping == idx + batch_size + 1

\* _process_slice: "idx = end_idx", the start of the next batch.
NextIdx == idx + batch_size

\* _process_slice: "done = len(todo)" after a batch has completed.
DoneAfterBatch == Len(todo)

\* _process_slice, "while idx < len(ids)": the UPDATE of the next batch is
\* sent, or the slice is finished and the last count is yielded.
process_batch ==
    /\ at = "loop"
    /\ IF idx < Len(ids)
       THEN IF InFlight(worker_conn)
            THEN /\ overlap' = TRUE
                 /\ WorkerRaise
                 /\ UNCHANGED <<observed, sent>>
            ELSE /\ todo' = NextBatch
                 /\ worker_conn' = Perform("update", todo')
                 /\ issued' = [r \in Rows |->
                                 IF r \in Range(todo') THEN issued[r] + 1 ELSE issued[r]]
                 /\ sent' = sent + 1
                 /\ at' = "update_poll"
                 /\ batches' = Append(batches, todo')
                 /\ UNCHANGED <<outerVars, on_conn, reopened, prefetch, fetched, connVars, dbVars, ctlVars, passVars, runner, in_progress, ids,
                                batch_size, idx, done, _place_count, ret, passLog, stageLog,
                                enumerated, applied, overlap, reported, observed,
                                returned>>
       ELSE /\ _place_count' = _place_count + Len(ids)
            /\ ret' = done
            /\ reported' = reported + done
            /\ returned' = TRUE
            /\ in_progress' = ~SliceEnded(done)
            /\ at' = AfterYield(done, "final")
            /\ UNCHANGED <<outerVars, sliceVars, connVars, dbVars, ctlVars, passVars, runner, worker_conn, ids,
                           batch_size, idx, done, todo, histVars, observed, sent>>

\* _process_slice: "while not self.conn.is_done(): yield done; done = 0",
\* then "done = len(todo); idx = end_idx".
update_poll ==
    /\ at = "update_poll"
    /\ \/ /\ IsFailed(worker_conn)
          /\ WorkerRaise
          /\ UNCHANGED <<overlap, observed, sent>>
       \/ /\ ~IsFailed(worker_conn)
          /\ ~IsDone(worker_conn)
          /\ worker_conn' = Polled(worker_conn)
          /\ ret' = done
          /\ reported' = reported + done
          /\ returned' = TRUE
          /\ in_progress' = ~SliceEnded(done)
          /\ at' = AfterYield(done, "update_wait")
          /\ UNCHANGED <<outerVars, sliceVars, connVars, dbVars, ctlVars, passVars, runner, ids,
                         batch_size, idx, done, todo, _place_count, histVars, observed,
                         sent>>
       \/ /\ IsDone(worker_conn)
          /\ worker_conn' = Connected
          /\ done' = DoneAfterBatch
          /\ idx' = NextIdx
          /\ observed' = observed \cup Range(todo)
          /\ at' = "loop"
          /\ UNCHANGED <<outerVars, sliceVars, connVars, dbVars, ctlVars, passVars, runner, in_progress, ids, batch_size,
                         todo, _place_count, ret, histVars, reported, sent, returned>>

\* A worker has been constructed for a runner and is idle.
InitWorker ==
    /\ runner \in {RankRunner(MaxRank), PostcodeRunner}
    /\ kind = [r \in Rows |-> IF HasObjectInfo(runner) THEN RowKinds[4] ELSE RowKinds[6]]
    /\ status = [r \in Rows |-> 1]
    /\ IndexerOff
    /\ worker_conn = Connected
    /\ in_progress = FALSE
    /\ at = "idle"
    /\ ids = <<>>
    /\ batch_size = 1
    /\ idx = 0
    /\ done = 0
    /\ todo = <<>>
    /\ _place_count = 0
    /\ ret = 0
    /\ issued = [r \in Rows |-> 0]
    /\ applied = {}
    /\ overlap = FALSE
    /\ bypassed = [t \in Threads |-> 0]
    /\ ImporterOff
    /\ CheckOff
    /\ reported = 0
    /\ observed = {}
    /\ sent = 0
    /\ returned = FALSE
    /\ on_conn = 0
    /\ reopened = FALSE
    /\ batches = <<>>
    /\ prefetch = "none"
    /\ fetched = <<>>
    /\ TokenizerOff
    /\ CliOff

NextWorker ==
    \/ start_slice
    \/ continue_slice_idle
    \/ continue_slice_start
    \/ continue_slice_resume
    \/ continue_slice_end
    \/ prefetch_poll
    \/ process_batch
    \/ update_poll
    \/ WorkerServerComplete
    \/ WorkerServerFail
    \/ WorkerServerPartial

SpecWorker == InitWorker /\ [][NextWorker]_vars


\* Either program runs: an operation of an Indexer, or a worker under its
\* pool.
InitBoth == Init \/ InitWorker
NextBoth == Next \/ NextWorker
SpecBoth == InitBoth /\ [][NextBoth]_vars

\* index_full, and the operations index_by_rank and index_boundaries with
\* the arguments of the command line, over a table of administrative
\* boundaries.
MinRankAll == 0..(MaxRank + 1)
MaxRankSome == {0, 1, 3, 4, 5, 16, 17, 25, 26, 27, 29, 30, 31, 32}
InitSched ==
    /\ kind = [r \in Rows |-> RowKinds[3]]
    /\ status = [r \in Rows |-> 1]
    /\ conn = [c \in Threads |-> NoConnection]
    /\ indexer_conn = "none"
    /\ ro_conn = "none"
    /\ command \in {ByRank(m, n) : m \in MinRankAll, n \in MaxRankSome}
                     \cup {Boundaries(m, n) : m \in MinRankAll, n \in MaxRankSome}
                     \cup {Full}
    /\ num_threads \in Threads
    /\ pc = "setup"
    /\ stage = 1
    /\ passNo = 1
    /\ cursor = <<>>
    /\ cursorOpen = FALSE
    /\ places = <<>>
    /\ progress = 0
    /\ ready = <<>>
    /\ pos = 1
    /\ command_stat = 0
    /\ waitNo = 1
    /\ passLog = <<>>
    /\ stageLog = <<>>
    /\ enumerated = {}
    /\ issued = [r \in Rows |-> 0]
    /\ applied = {}
    /\ overlap = FALSE
    /\ bypassed = [t \in Threads |-> 0]
    /\ ImporterOff
    /\ CheckOff
    /\ WorkerOff
    /\ TokenizerOff
    /\ CliOff

SpecSched == InitSched /\ [][Next]_vars

\* The Indexer runs on and the server finishes every command it has not
\* failed: index() and find_free_thread are one thread of control, which
\* takes its next step whenever it can, and a command in flight completes
\* in the end.
IndexerStep ==
    \/ _setup_connections
    \/ index_begin
    \/ fetchmany
    \/ find_free_thread
    \/ find_free_thread_select
    \/ find_free_thread_refresh
    \/ refresh_thread
    \/ wait_thread
    \/ index_done
    \/ _close_connections
    \/ _analyse_db_if
\* The tables and operations of the fair runs: a table of boundaries of
\* rank 16 or of places of rank 4, each indexed in batches of one row.
InitFair ==
    /\ Init
    /\ kind \in {[r \in Rows |-> RowKinds[3]], [r \in Rows |-> RowKinds[2]]}
    /\ command \in {Full, Boundaries(0, MaxRank), ByRank(0, MaxRank)}
SpecFair ==
    /\ InitFair
    /\ [][Next]_vars
    /\ WF_vars(IndexerStep)
    /\ \A c \in Threads : WF_vars(ServerComplete(c))

\* The steps of a worker under its pool: the pool calls continue_slice on
\* a worker with a slice until the call returns -1, and the generator runs
\* on until it yields.
WorkerStep ==
    \/ continue_slice_start
    \/ continue_slice_resume
    \/ continue_slice_end
    \/ prefetch_poll
    \/ process_batch
    \/ update_poll
\* An Indexer or a worker runs on and the server finishes every command it
\* has not failed.
\* The slices of the fair runs are the first rows of the table, and the
\* Indexer works on the tables of InitFair.
FairSlices == {SliceOf(1..n) : n \in 1..MaxSlice}
InitTerminates == InitFair \/ InitWorker
start_fair_slice == start_slice /\ ids' \in FairSlices
NextTerminates ==
    \/ Next
    \/ start_fair_slice
    \/ continue_slice_idle
    \/ WorkerStep
    \/ WorkerServerComplete
    \/ WorkerServerFail
    \/ WorkerServerPartial
SpecTerminates ==
    /\ InitTerminates
    /\ [][NextTerminates]_vars
    /\ WF_vars(IndexerStep)
    /\ \A c \in Threads : WF_vars(ServerComplete(c))
    /\ WF_vars(WorkerStep)
    /\ WF_vars(WorkerServerComplete)

\* ------------------------------------------------- the 'index' command runs
\* A call of an operation of the Indexer out of UpdateIndex.run.
CallIndexer(cmd) ==
    /\ command' = cmd
    /\ stage' = 1
    /\ passNo' = 1
    /\ pc' = "setup"

\* "if not args.no_boundaries:
\*      indexer.index_boundaries(args.minrank, args.maxrank)": the call.
run_index_boundaries ==
    /\ cli = "start"
    /\ IF ~args.no_boundaries
       THEN /\ CallIndexer(Boundaries(args.minrank, args.maxrank))
            /\ cli' = "index_boundaries"
       ELSE /\ cli' = "boundaries_done"
            /\ UNCHANGED <<command, stage, passNo, pc>>
    /\ UNCHANGED <<tokenizerVars, schedVars, importVars, checkVars, sliceVars, connVars, dbVars, num_threads, passVars, workerVars,
                   histVars, callVars, args, indexed, completed>>

\* An operation of the Indexer returns to UpdateIndex.run.
indexer_returns ==
    /\ cli \in {"index_boundaries", "index_by_rank"}
    /\ pc = "done"
    /\ completed' = completed \cup {cli}
    /\ cli' = IF cli = "index_boundaries" THEN "boundaries_done" ELSE "ranks_done"
    /\ UNCHANGED <<tokenizerVars, schedVars, importVars, checkVars, engineVars, args, indexed>>

\* An operation of the Indexer raises, and the exception leaves
\* UpdateIndex.run.
indexer_raises ==
    /\ cli \in {"index_boundaries", "index_by_rank"}
    /\ pc = "error"
    /\ cli' = "raised"
    /\ UNCHANGED <<tokenizerVars, schedVars, importVars, checkVars, engineVars, args, indexed, completed>>

\* "if not args.boundaries_only:
\*      indexer.index_by_rank(args.minrank, args.maxrank)": the call.
run_index_by_rank ==
    /\ cli = "boundaries_done"
    /\ IF ~args.boundaries_only
       THEN /\ CallIndexer(ByRank(args.minrank, args.maxrank))
            /\ cli' = "index_by_rank"
       ELSE /\ cli' = "ranks_done"
            /\ UNCHANGED <<command, stage, passNo, pc>>
    /\ UNCHANGED <<tokenizerVars, schedVars, importVars, checkVars, sliceVars, connVars, dbVars, num_threads, passVars, workerVars,
                   histVars, callVars, args, indexed, completed>>

\* "if <full indexing>: with connect(...) as conn:
\*      status.set_indexed(conn, True)" and "return 0".
run_set_indexed ==
    /\ cli = "ranks_done"
    /\ indexed' = (indexed \/ IsFullIndexing(args))
    /\ cli' = "returned"
    /\ UNCHANGED <<tokenizerVars, schedVars, importVars, checkVars, engineVars, args, completed>>

\* The connection for set_indexed cannot be opened, or the UPDATE fails:
\* the exception leaves UpdateIndex.run.
run_set_indexed_fails ==
    /\ cli = "ranks_done"
    /\ IsFullIndexing(args)
    /\ cli' = "raised"
    /\ UNCHANGED <<tokenizerVars, schedVars, importVars, checkVars, engineVars, args, indexed, completed>>

\* The command lines, and the table the command works on: a row of rank
\* 4, a boundary of rank 16 and a row of rank 30, in turn.
CommandLines ==
    {Args(nb, bo, m, n) : nb \in BOOLEAN, bo \in BOOLEAN, m \in MinRankArgs, n \in MaxRankArgs}
CommandTable == [r \in Rows |-> RowKinds[2 + ((r - 1) % 3)]]

\* UpdateIndex.run has constructed the Indexer.
InitCommand ==
    /\ kind = CommandTable
    /\ status = [r \in Rows |-> 1]
    /\ IndexerOff
    /\ issued = [r \in Rows |-> 0]
    /\ applied = {}
    /\ overlap = FALSE
    /\ bypassed = [t \in Threads |-> 0]
    /\ ImporterOff
    /\ CheckOff
    /\ WorkerOff
    /\ TokenizerOff
    /\ args \in CommandLines
    /\ cli = "start"
    /\ indexed = FALSE
    /\ completed = {}

NextCommand ==
    \/ run_index_boundaries
    \/ indexer_returns
    \/ indexer_raises
    \/ run_index_by_rank
    \/ run_set_indexed
    \/ run_set_indexed_fails
    \/ (cli \in {"index_boundaries", "index_by_rank"} /\ Next)

SpecCommand == InitCommand /\ [][NextCommand]_vars

\* ------------------------------------------------ update_special_phrases
\* The sets of phrases of at most n phrases.
RECURSIVE PhraseSets(_)
PhraseSets(n) ==
    IF n = 0 THEN {{}}
    ELSE LET smaller == PhraseSets(n - 1)
         IN  smaller \cup {ps \cup {p} : ps \in smaller, p \in AllPhrases}

\* The arguments of update_special_phrases, and the phrases the importer
\* finds on the wiki.
CallPhrases == PhraseSets(MaxPhrases)
WikiPhrases == PhraseSets(MaxWikiPhrases)

\* update_special_phrases(phrases) up to the INSERT: the normalised
\* phrases, the SELECT of the existing phrases and the two differences.
update_special_phrases ==
    /\ tpc \in {"new", "idle", "removed"}
    /\ TotalRows(word) <= MaxWordRows
    /\ \E ps \in CallPhrases :
         /\ phrases' = ps
         /\ repeat' = (tpc = "idle" /\ ps = phrases)
         /\ to_add' = norm_phrases(ps) \ existing_phrases(word)
         /\ to_delete' = existing_phrases(word) \ norm_phrases(ps)
    /\ tpc' = "insert"
    /\ UNCHANGED <<notPhraseVars, word, visible>>

\* "if to_add: execute_values(cur, INSERT INTO word ..., to_add)".
insert_phrases ==
    /\ tpc = "insert"
    /\ word' = IF to_add # {}
               THEN [x \in WordRows |->
                       word[x] + Cardinality({p \in to_add : InsertedRow(p) = x})]
               ELSE word
    /\ visible' = Commit(word', visible)
    /\ tpc' = "delete"
    /\ UNCHANGED <<notPhraseVars, phrases, to_add, to_delete, repeat>>

\* "if to_delete: execute_values(cur, DELETE FROM word ..., to_delete)",
\* and the return.
delete_phrases ==
    /\ tpc = "delete"
    /\ word' = IF to_delete # {}
               THEN [x \in WordRows |->
                       IF \E p \in to_delete : DeleteMatches(x, p) THEN 0 ELSE word[x]]
               ELSE word
    /\ visible' = Commit(word', visible)
    /\ tpc' = "idle"
    /\ UNCHANGED <<notPhraseVars, phrases, to_add, to_delete, repeat>>

\* The DELETE raises an error of the database: the statement changes
\* nothing, the exception leaves update_special_phrases, and what was
\* committed before it stays.
delete_phrases_fails ==
    /\ tpc = "delete"
    /\ to_delete # {}
    /\ word' = Commit(word, visible)
    /\ tpc' = "failed"
    /\ UNCHANGED <<notPhraseVars, visible, phrases, to_add, to_delete, repeat>>

\* SpecialPhrasesImporter.import_from_wiki on the phrases ps of the wiki,
\* as far as it removes rows: _fetch_existing_words_phrases reads the
\* existing phrases, _process_xml_content keeps those that are still on
\* the wiki, _remove_non_existent_phrases_from_db deletes the others, and
\* the importer commits.
_remove_non_existent_phrases_from_db ==
    /\ tpc \in {"new", "idle", "removed"}
    /\ \E ps \in WikiPhrases :
         LET existing == existing_phrases(word)
             still_exist == norm_phrases(ps) \cap existing
             gone == existing \ still_exist
         IN  /\ phrases' = ps
             /\ to_add' = {}
             /\ to_delete' = gone
             /\ word' = [x \in WordRows |->
                           IF \E p \in gone : RemoveMatches(x, p) THEN 0 ELSE word[x]]
    /\ visible' = word'
    /\ repeat' = FALSE
    /\ tpc' = "removed"
    /\ UNCHANGED notPhraseVars

\* No indexing runs.
EngineOff ==
    /\ kind = [r \in Rows |-> RowKinds[1]]
    /\ status = [r \in Rows |-> 1]
    /\ IndexerOff
    /\ issued = [r \in Rows |-> 0]
    /\ applied = {}
    /\ overlap = FALSE
    /\ bypassed = [t \in Threads |-> 0]
    /\ WorkerOff
    /\ CliOff

\* An analyzer has been opened on a word table that holds a housenumber
\* term, a postcode term and the token of a name, and no special phrase.
InitPhrases ==
    /\ EngineOff
    /\ ImporterOff
    /\ CheckOff
    /\ word = [x \in WordRows |->
                 IF x \in {HousenumberRow, PostcodeRow, NameRow} THEN 1 ELSE 0]
    /\ visible = word
    /\ CountryOff
    /\ LruOff
    /\ AnalyzerOff
    /\ tpc = "new"
    /\ phrases = {}
    /\ to_add = {}
    /\ to_delete = {}
    /\ repeat = FALSE

NextPhrases ==
    \/ update_special_phrases
    \/ insert_phrases
    \/ delete_phrases
    \/ delete_phrases_fails
    \/ _remove_non_existent_phrases_from_db

SpecPhrases == InitPhrases /\ [][NextPhrases]_vars

\* ------------------------------------------- add_country_names, the calls
\* add_country_names(country_code, names) of the ICU analyzer with a
\* country_code that is not two lower-case letters: it returns.
add_country_names_skip(a) ==
    /\ apc[a] \in {"idle", "done"}
    /\ acalls[a] < MaxCalls
    /\ variant[a] = "icu"
    /\ \E cc \in CountryCodes, names \in NameLists :
         /\ ~IsCountryCode(cc)
         /\ arepeat' = [arepeat EXCEPT ![a] =
                           apc[a] = "done" /\ cc = acode[a] /\ names = anames[a]]
         /\ acode' = [acode EXCEPT ![a] = cc]
         /\ anames' = [anames EXCEPT ![a] = names]
    /\ aadded' = [aadded EXCEPT ![a] = 0]
    /\ acalls' = [acalls EXCEPT ![a] = @ + 1]
    /\ apc' = [apc EXCEPT ![a] = "done"]
    /\ UNCHANGED <<notCountryVars, country_rows, variant, asnap, overlapped>>

\* add_country_names(country_code, names) up to the start of the INSERT:
\* the statement sees the rows committed before it started.
add_country_names(a) ==
    /\ apc[a] \in {"idle", "done"}
    /\ acalls[a] < MaxCalls
    /\ \E cc \in CountryCodes, names \in NameLists :
         /\ variant[a] = "icu" => IsCountryCode(cc)
         /\ arepeat' = [arepeat EXCEPT ![a] =
                           apc[a] = "done" /\ cc = acode[a] /\ names = anames[a]]
         /\ acode' = [acode EXCEPT ![a] = cc]
         /\ anames' = [anames EXCEPT ![a] = names]
    /\ asnap' = [asnap EXCEPT ![a] = country_rows]
    /\ acalls' = [acalls EXCEPT ![a] = @ + 1]
    /\ apc' = [apc EXCEPT ![a] = "insert"]
    /\ overlapped' = (overlapped \/ \E b \in Analyzers \ {a} : apc[b] = "insert")
    /\ UNCHANGED <<notCountryVars, country_rows, variant, aadded>>

\* The INSERT of add_country_names stores its rows and commits
\* (autocommit), and the call returns.
insert_country_names(a) ==
    /\ apc[a] = "insert"
    /\ LET tokens == IF variant[a] = "icu" THEN IcuTokens(anames[a])
                     ELSE LegacyTokens(anames[a])
           rows == GuardedInsert(tokens, acode[a], asnap[a])
       IN  /\ country_rows' = [pr \in CountryPairs |-> country_rows[pr] + rows[pr]]
           /\ aadded' = [aadded EXCEPT ![a] = CountRowsOf(rows)]
    /\ apc' = [apc EXCEPT ![a] = "done"]
    /\ UNCHANGED <<notCountryVars, variant, acode, anames, asnap, arepeat, acalls, overlapped>>

\* Analyzers of either class have been opened on a word table without
\* country names.
InitCountry ==
    /\ EngineOff
    /\ ImporterOff
    /\ CheckOff
    /\ PhraseOff
    /\ LruOff
    /\ AnalyzerOff
    /\ country_rows = [pr \in CountryPairs |-> 0]
    /\ variant \in [Analyzers -> {"legacy", "icu"}]
    /\ apc = [a \in Analyzers |-> "idle"]
    /\ acode = [a \in Analyzers |-> "de"]
    /\ anames = [a \in Analyzers |-> <<>>]
    /\ asnap = [a \in Analyzers |-> country_rows]
    /\ aadded = [a \in Analyzers |-> 0]
    /\ arepeat = [a \in Analyzers |-> FALSE]
    /\ acalls = [a \in Analyzers |-> 0]
    /\ overlapped = FALSE

NextCountry ==
    \E a \in Analyzers :
        \/ add_country_names_skip(a)
        \/ add_country_names(a)
        \/ insert_country_names(a)

SpecCountry == InitCountry /\ [][NextCountry]_vars

\* ---------------------------------------------------------- _LRU, the calls
\* The caches as they are constructed: without init_data, or with keys
\* whose value is None, as _TokenCache seeds the postcodes.
LruSeeds == { <<>>, << <<"k1", None>> >>,
              << <<"k1", None>>, <<"k2", None>>, <<"k3", None>> >> }

\* "def get(self, key, generator)" with a generator that returns result.
lru_get ==
    /\ lru_gets < MaxGets
    /\ \E key \in LruKeys, result \in LruResults :
         /\ lru_key' = key
         /\ lru_generated' = IF LruHit(lru_data, key) THEN 0 ELSE 1
         /\ lru_data' = LruGetData(lru_data, lru_maxsize, key, result)
         /\ lru_value' = LruGetValue(lru_data, key, result)
    /\ lru_before' = lru_data
    /\ lru_gets' = lru_gets + 1
    /\ UNCHANGED <<notLruVars, lru_maxsize>>

InitLRU ==
    /\ EngineOff
    /\ ImporterOff
    /\ CheckOff
    /\ PhraseOff
    /\ CountryOff
    /\ AnalyzerOff
    /\ \E init_data \in LruSeeds :
         /\ lru_data = LruInitData(init_data)
         /\ lru_maxsize = LruInitMaxsize(LruMaxSize, init_data)
    /\ lru_key = None
    /\ lru_before = lru_data
    /\ lru_generated = 0
    /\ lru_value = None
    /\ lru_gets = 0

NextLRU == lru_get

SpecLRU == InitLRU /\ [][NextLRU]_vars

\* --------------------------------- process_place and tokenize, the calls
\* The entries of the token information of a place.
TokenInfo(pl, fn) ==
    [NoTokenInfo EXCEPT
       !.names = IF pl.name = Absent THEN NoToken ELSE Token(fn, <<pl.name>>),
       !.hnr_tokens = HousenumberInfo(pl.hnrs).hnr_tokens,
       !.hnr = HousenumberInfo(pl.hnrs).hnr]

\* LegacyNameAnalyzer.process_place(place). _add_postcode looks the
\* normalised postcode up in the _LRU of postcodes with the generator
\* _create_postcode_from_db, which calls create_postcode_id and returns
\* None; re.search raises a TypeError for a postcode without a value.
process_place ==
    /\ scenario = "legacy"
    /\ processed < MaxPlaces
    /\ \E pl \in LegacyPlaces :
         LET postcode == pl.postcode
             fails == postcode = NoValue
             lookup == postcode \notin {Absent, NoValue} /\ PostcodeIsClean(postcode)
             key == NormalizedPostcode(postcode)
             generated == lookup /\ ~LruHit(pcache, key)
         IN  /\ last_place' = pl
             /\ raised' = fails
             /\ pcache' = IF lookup
                          THEN LruGetData(pcache, PostcodeMaxSize, key, None)
                          ELSE pcache
             /\ queries' =
                  NameQueries(pl, "add_country_names") \o
                  (IF generated THEN <<Query("create_postcode_id", <<key>>)>> ELSE <<>>) \o
                  (IF fails THEN <<>> ELSE HousenumberQueries(pl.hnrs))
             /\ token_info' = IF fails THEN NoTokenInfo ELSE TokenInfo(pl, "make_keywords")
    /\ pcache_before' = pcache
    /\ processed' = processed + 1
    /\ UNCHANGED <<notAnalyzerVars, scenario, addr_cache, addr_before, street_cache, postcode_cache, analyzer,
                   used_by>>

\* "postcode = self.normalize_postcode(address.get('postcode'))": NoValue
\* for a postcode that is missing or has a separator.
normalize_postcode(postcode) ==
    IF postcode \notin {Absent, NoValue} /\ PostcodeIsClean(postcode)
    THEN NormalizedPostcode(postcode)
    ELSE NoValue

\* '{}', the text of an empty array.
EmptyArray == Token("{}", <<>>)

\* _get_street_place_terms(name): the row of "SELECT
\* word_ids_from_name(%s)::text, ARRAY[getorcreate_name_id(%s, '')]::text",
\* or ('{}', '{}') for a name without a standard form.
_get_street_place_terms(name) ==
    LET norm == Lower(name)
    IN  IF norm = <<>> THEN <<EmptyArray, EmptyArray>>
        ELSE <<Token("word_ids_from_name", <<norm>>), Token("getorcreate_name_id", <<norm>>)>>
StreetPlaceQueries(cache, key) ==
    IF key[2] # Absent /\ ~FunctoolsHit(cache, key) /\ Lower(key[2]) # <<>>
    THEN <<Query("_get_street_place_terms", <<Lower(key[2])>>)>> ELSE <<>>

\* Mutant of StreetPlaceInfo: the first column is stored as the search
\* terms and the second as the match terms.
StreetPlaceInfoSearchFirst(info, pl) ==
    LET street == _get_street_place_terms(pl.street)
        place == _get_street_place_terms(pl.place)
    IN  [info EXCEPT
           !.street_search = IF pl.street = Absent THEN @ ELSE street[1],
           !.street_match = IF pl.street = Absent THEN @ ELSE street[2],
           !.place_search = IF pl.place = Absent THEN @ ELSE place[1],
           !.place_match = IF pl.place = Absent THEN @ ELSE place[2]]

\* "token_info[atype + '_match'], token_info[atype + '_search'] =
\* self._get_street_place_terms(address[atype])" for the keys street and
\* place the address has.
StreetPlaceInfo(info, pl) ==
    LET street == _get_street_place_terms(pl.street)
        place == _get_street_place_terms(pl.place)
    IN  [info EXCEPT
           !.street_match = IF pl.street = Absent THEN @ ELSE street[1],
           !.street_search = IF pl.street = Absent THEN @ ELSE street[2],
           !.place_match = IF pl.place = Absent THEN @ ELSE place[1],
           !.place_search = IF pl.place = Absent THEN @ ELSE place[2]]

\* Worker w of a pass calls sql_index_places of runner r for a place:
\* "self.tokenizer.tokenize(place)", LegacyIcuNameAnalyzer.tokenize.
tokenize(r, w) ==
    /\ scenario = "icu"
    /\ processed < MaxPlaces
    /\ \E pl \in IcuPlaces :
         LET a == RunnerAnalyzer(r, w)
             postcode == normalize_postcode(pl.postcode)
             has_postcode == postcode \notin {NoValue, <<>>}
             pkey == <<a, postcode>>
             akey == <<a, pl.addr>>
             skey == <<a, pl.street>>
             plkey == <<a, pl.place>>
             street_cached == IF pl.street # Absent
                              THEN FunctoolsCall(street_cache, FunctoolsMaxSize, skey)
                              ELSE street_cache
         IN  /\ last_place' = pl
             /\ street_cache' = IF pl.place # Absent
                                THEN FunctoolsCall(street_cached, FunctoolsMaxSize, plkey)
                                ELSE street_cached
             /\ analyzer' = a
             /\ used_by' = [used_by EXCEPT ![a] = @ \cup {w}]
             /\ postcode_cache' = IF has_postcode
                                  THEN FunctoolsCall(postcode_cache, FunctoolsMaxSize, pkey)
                                  ELSE postcode_cache
             /\ addr_cache' = IF pl.addr # Absent
                              THEN FunctoolsCall(addr_cache, FunctoolsMaxSize, akey)
                              ELSE addr_cache
             /\ queries' =
                  NameQueries(pl, "_add_normalized_country_names") \o
                  HousenumberQueries(pl.hnrs) \o
                  (IF has_postcode /\ ~FunctoolsHit(postcode_cache, pkey)
                   THEN <<Query("create_postcode_id", <<postcode>>)>> ELSE <<>>) \o
                  StreetPlaceQueries(street_cache, skey) \o
                  StreetPlaceQueries(street_cached, plkey) \o
                  (IF pl.addr # Absent /\ ~FunctoolsHit(addr_cache, akey) /\ Lower(pl.addr) # <<>>
                   THEN <<Query("addr_ids_from_name", <<Lower(pl.addr)>>)>> ELSE <<>>)
             /\ token_info' = StreetPlaceInfo(TokenInfo(pl, "getorcreate_name_id"), pl)
    /\ raised' = FALSE
    /\ addr_before' = addr_cache
    /\ processed' = processed + 1
    /\ UNCHANGED <<notAnalyzerVars, scenario, pcache, pcache_before>>

\* The postcodes the legacy analyzer finds in word when it is constructed:
\* "postcodes[row[0]] = None" for the rows of class 'place' and type
\* 'postcode'; not more of them than the cache holds.
PostcodeSeeds == { <<>>, << << <<"A", "B">>, None >> >> }

\* An analyzer of either class has been constructed.
InitAnalyzer ==
    /\ EngineOff
    /\ ImporterOff
    /\ CheckOff
    /\ PhraseOff
    /\ CountryOff
    /\ LruOff
    /\ scenario \in {"legacy", "icu"}
    /\ pcache \in (IF scenario = "legacy" THEN PostcodeSeeds ELSE {<<>>})
    /\ pcache_before = pcache
    /\ addr_cache = <<>>
    /\ addr_before = <<>>
    /\ street_cache = <<>>
    /\ postcode_cache = <<>>
    /\ last_place = Place(Absent, Absent, Absent, <<>>, Absent)
    /\ analyzer = 1
    /\ used_by = [a \in IcuAnalyzers |-> {}]
    /\ queries = <<>>
    /\ token_info = NoTokenInfo
    /\ raised = FALSE
    /\ processed = 0

NextAnalyzer ==
    \/ process_place
    \/ \E r \in IcuAnalyzers, w \in PoolWorkers : tokenize(r, w)

SpecAnalyzer == InitAnalyzer /\ [][NextAnalyzer]_vars

\* ------------------------------- the special phrases importer, the calls
\* The matches of the wiki pages: classes and types that are well formed,
\* on a list, empty or garbage, with blanks around them, with quotes and
\* with a newline before a closing quote.
MatchClasses ==
    {<<"a">>, <<"a", "_", "b">>, <<"x">>, <<"h">>, <<"!">>, <<" ">>, <<" ", "a">>}
MatchTypes ==
    {<<"c">>, <<"b", "_", "c">>, <<"d">>, <<"c", "!">>, <<"\"", "c", "\"">>,
     <<"c", "\n", "\"">>}
MatchOperators == {Near, <<"i", "n", " ">>, Dash, <<"n", "a", "h">>}
Matches ==
    {Match(<<"A">>, c, t, o) : c \in MatchClasses, t \in MatchTypes, o \in MatchOperators}

\* The arguments of a call of _check_sanity.
SanityInputs ==
    {<<>>, <<"c">>, <<"a", "_", "1">>, <<"c", "!">>, <<"a", " ", "b">>, <<"c", "\n">>,
     <<"\n">>, <<"c", "\n", "\n">>}

\* The place_classtype tables the database holds before an import.
TableSets ==
    SUBSET {TableName(<<"a">>, <<"c">>), TableName(<<"a">>, <<"b", "_", "c">>),
            TableName(<<"z">>, <<"z">>)}

\* The phrases in the sets of the old importer, and its word table: the
\* phrases but one are stored, one of them twice, beside the terms that
\* are no phrases.
ImportPhrases ==
    {Phrase("a", "amenity", "pub", o) : o \in Operators}
      \cup {Phrase("a", "place", "village", "-"), Phrase("b", "amenity", "pub", "-")}
ImportPhraseSets == {ps \in SUBSET ImportPhrases : Cardinality(ps) <= MaxPhrases}
ImportWord ==
    [x \in WordRows |->
       IF x = WordRow("a", "amenity", "pub", NULL) THEN 2
       ELSE IF x \in {WordRow("a", "amenity", "pub", "in"), WordRow("a", "amenity", "pub", "near"),
                      WordRow("a", "place", "village", NULL),
                      HousenumberRow, PostcodeRow, NameRow} THEN 1
       ELSE 0]

\* A call of _check_sanity of either revision.
_check_sanity_call ==
    /\ ipc = "sanity"
    /\ \E c \in SanityInputs, t \in SanityInputs :
         /\ sanity_args' = <<revision, c, t>>
         /\ sanity_result' = _check_sanity(revision, c, t)
    /\ UNCHANGED <<engineVars, tokenizerVars, cliVars, schedVars, checkVars, revision, ipc, matched,
                   last_entry, class_type_pairs, pairs_todo, word_phrases, ptables,
                   tables_before, table_phrases_to_delete, created, dropped,
                   words_phrases_to_delete, words_phrases_still_exist>>

\* "self.words_phrases_to_delete - self.words_phrases_still_exist".
PhrasesToDelete == words_phrases_to_delete \ words_phrases_still_exist

\* The DELETE statements of _remove_non_existent_phrases_from_db on the
\* word table w.
WordAfterRemoval(w, gone) ==
    [x \in WordRows |-> IF \E p \in gone : RemoveMatches(x, p) THEN 0 ELSE w[x]]

\* "DROP TABLE IF EXISTS {}" for every table of the set.
TablesAfterDrop(tables, to_drop) == tables \ to_drop

\* _remove_non_existent_phrases_from_db of the old revision, called with
\* the three sets filled as the test
\* test_remove_non_existent_phrases_from_db fills them.
_remove_non_existent_phrases_from_db_call ==
    /\ revision = "old"
    /\ ipc = "remove"
    /\ words_phrases_to_delete' = PhrasesToDelete
    /\ word' = WordAfterRemoval(word, PhrasesToDelete)
    /\ visible' = visible
    /\ ptables' = TablesAfterDrop(ptables, table_phrases_to_delete)
    /\ dropped' = ptables \cap table_phrases_to_delete
    /\ ipc' = "done"
    /\ UNCHANGED <<engineVars, cliVars, schedVars, checkVars, countryVars, lruVars, analyzerVars,
                   tpc, phrases, to_add, to_delete, repeat,
                   revision, matched, last_entry, class_type_pairs, pairs_todo, word_phrases,
                   sanity_args, sanity_result, tables_before, table_phrases_to_delete,
                   created, words_phrases_still_exist>>

\* import_from_wiki of the new revision up to the loop over the languages:
\* _fetch_existing_place_classtype_tables.
_fetch_existing_place_classtype_tables ==
    /\ revision = "new"
    /\ ipc = "fetch"
    /\ table_phrases_to_delete' = ptables
    /\ ipc' = "process"
    /\ UNCHANGED <<engineVars, tokenizerVars, cliVars, schedVars, checkVars, revision, matched,
                   last_entry, class_type_pairs, pairs_todo, word_phrases, sanity_args,
                   sanity_result, ptables, tables_before, created, dropped,
                   words_phrases_to_delete, words_phrases_still_exist>>

\* The match passes the black list, the white list and the sanity check.
Accepted(ph) ==
    /\ ~Blacklisted(ph)
    /\ ~NotWhitelisted(ph)
    /\ _check_sanity("new", ph.class, ph.type) = "True"

\* _process_xml_content of the new revision, one turn of "for match in
\* matches".
_process_xml_content ==
    /\ revision = "new"
    /\ ipc = "process"
    /\ matched < MaxMatches
    /\ \E match \in Matches :
         LET ph == PhraseOf(match)
         IN  /\ last_entry' = match
             /\ IF Blacklisted(ph) \/ NotWhitelisted(ph)
                THEN UNCHANGED <<sanity_args, sanity_result>>
                ELSE /\ sanity_args' = <<"new", ph.class, ph.type>>
                     /\ sanity_result' = _check_sanity("new", ph.class, ph.type)
             /\ IF Accepted(ph)
                THEN /\ class_type_pairs' = class_type_pairs \cup {<<ph.class, ph.type>>}
                     /\ word_phrases' =
                            word_phrases \cup {<<ph.label, ph.class, ph.type, ph.operator>>}
                ELSE UNCHANGED <<class_type_pairs, word_phrases>>
    /\ matched' = matched + 1
    /\ UNCHANGED <<engineVars, tokenizerVars, cliVars, schedVars, checkVars, revision, ipc, pairs_todo,
                   ptables, tables_before, table_phrases_to_delete, created, dropped,
                   words_phrases_to_delete, words_phrases_still_exist>>

\* "return class_type_pairs" after the last match of the last language,
\* and the call of _create_place_classtype_table_and_indexes.
_process_xml_content_returns ==
    /\ revision = "new"
    /\ ipc = "process"
    /\ pairs_todo' = class_type_pairs
    /\ ipc' = "create"
    /\ UNCHANGED <<engineVars, tokenizerVars, cliVars, schedVars, checkVars, revision, matched,
                   last_entry, class_type_pairs, word_phrases, sanity_args, sanity_result,
                   ptables, tables_before, table_phrases_to_delete, created, dropped,
                   words_phrases_to_delete, words_phrases_still_exist>>

\* Mutant of KeepsTable: no table is taken from the tables to delete.
KeepsTableNever(table_name) == FALSE

\* "if table_name in self.table_phrases_to_delete".
KeepsTable(table_name) == table_name \in table_phrases_to_delete

\* _create_place_classtype_table_and_indexes, one turn of "for pair in
\* class_type_pairs": a table that exists is taken from the tables to
\* delete, another one is made with CREATE TABLE IF NOT EXISTS.
_create_place_classtype_table_and_indexes ==
    /\ ipc = "create"
    /\ \E pair \in pairs_todo :
         LET table_name == TableName(pair[1], pair[2])
         IN  /\ pairs_todo' = pairs_todo \ {pair}
             /\ IF KeepsTable(table_name)
                THEN /\ table_phrases_to_delete' = table_phrases_to_delete \ {table_name}
                     /\ UNCHANGED <<ptables, created>>
                ELSE /\ ptables' = ptables \cup {table_name}
                     /\ created' = created \cup ({table_name} \ ptables)
                     /\ UNCHANGED table_phrases_to_delete
    /\ UNCHANGED <<engineVars, tokenizerVars, cliVars, schedVars, checkVars, revision, ipc, matched,
                   last_entry, class_type_pairs, word_phrases, sanity_args, sanity_result,
                   tables_before, dropped, words_phrases_to_delete,
                   words_phrases_still_exist>>

\* _remove_non_existent_tables_from_db, the commit and the call of
\* update_special_phrases with word_phrases.
_remove_non_existent_tables_from_db ==
    /\ revision = "new"
    /\ ipc = "create"
    /\ pairs_todo = {}
    /\ ptables' = TablesAfterDrop(ptables, table_phrases_to_delete)
    /\ dropped' = ptables \cap table_phrases_to_delete
    /\ ipc' = "done"
    /\ UNCHANGED <<engineVars, tokenizerVars, cliVars, schedVars, checkVars, revision, matched,
                   last_entry, class_type_pairs, pairs_todo, word_phrases, sanity_args,
                   sanity_result, tables_before, table_phrases_to_delete, created,
                   words_phrases_to_delete, words_phrases_still_exist>>

\* An importer has been constructed: one whose _check_sanity is called, an
\* old one before _remove_non_existent_phrases_from_db, or a new one before
\* import_from_wiki.
InitImport ==
    /\ EngineOff
    /\ CheckOff
    /\ CountryOff
    /\ LruOff
    /\ AnalyzerOff
    /\ tpc = "new"
    /\ phrases = {}
    /\ to_add = {}
    /\ to_delete = {}
    /\ repeat = FALSE
    /\ matched = 0
    /\ last_entry = NoMatch
    /\ class_type_pairs = {}
    /\ pairs_todo = {}
    /\ word_phrases = {}
    /\ sanity_result = "not called"
    /\ created = {}
    /\ dropped = {}
    /\ \/ /\ revision \in {"old", "new"}
          /\ ipc = "sanity"
          /\ sanity_args = <<revision, <<>>, <<>>>>
          /\ word = [x \in WordRows |-> 0]
          /\ ptables = {}
          /\ table_phrases_to_delete = {}
          /\ words_phrases_to_delete = {}
          /\ words_phrases_still_exist = {}
       \/ /\ revision = "old"
          /\ ipc = "remove"
          /\ sanity_args = <<revision, <<>>, <<>>>>
          /\ word = ImportWord
          /\ ptables \in TableSets
          /\ table_phrases_to_delete \in TableSets
          /\ words_phrases_to_delete \in ImportPhraseSets
          /\ words_phrases_still_exist \in ImportPhraseSets
       \/ /\ revision = "new"
          /\ ipc = "fetch"
          /\ sanity_args = <<revision, <<>>, <<>>>>
          /\ word = [x \in WordRows |-> 0]
          /\ ptables \in TableSets
          /\ table_phrases_to_delete = {}
          /\ words_phrases_to_delete = {}
          /\ words_phrases_still_exist = {}
    /\ visible = word
    /\ tables_before = ptables

NextImport ==
    \/ _check_sanity_call
    \/ _remove_non_existent_phrases_from_db_call
    \/ _fetch_existing_place_classtype_tables
    \/ _process_xml_content
    \/ _process_xml_content_returns
    \/ _create_place_classtype_table_and_indexes
    \/ _remove_non_existent_tables_from_db

SpecImport == InitImport /\ [][NextImport]_vars

\* ------------------------------------------------------- check_database
\* CheckState.
OK == "OK"
FAIL == "FAIL"
FATAL == "FATAL"
NOT_APPLICABLE == "NOT_APPLICABLE"

\* CHECKLIST: the functions decorated with _check, in the order in which
\* the module defines them.
CHECKLIST ==
    << "check_connection", "check_placex_table", "check_placex_size", "check_tokenizer",
       "check_indexing", "check_database_indexes", "check_database_index_valid",
       "check_tiger_table" >>

\* What a check can return on a connection.
CheckResults(check, cn) ==
    CASE check = "check_connection" -> IF cn = "bad" THEN {FATAL} ELSE {OK}
      [] check \in {"check_placex_table", "check_placex_size"} -> {OK, FATAL}
      [] check = "check_tiger_table" -> {NOT_APPLICABLE, FAIL, OK}
      [] OTHER -> {OK, FAIL}

\* The checks that call a method of conn or hand it on; check_connection
\* only tests its class, and check_tokenizer does not look at it.
UsesConnection(check) == check \notin {"check_connection", "check_tokenizer"}

\* Mutant of StopsChecks: no result ends the loop.
StopsChecksNever(state) == FALSE

\* check_database: "if ret == CheckState.FATAL: conn.close(); return 1".
StopsChecks(state) == state = FATAL

\* check_database: "if ret in (CheckState.FATAL, CheckState.FAIL):
\* overall_result = 1".
CountsAsFailure(state) == state \in {FATAL, FAIL}

\* check_database: "conn = connect(config.get_libpq_dsn()).connection",
\* or a _BadConnection when connect raises UsageError.
check_database_connect ==
    /\ cpc = "connect"
    /\ check_conn' \in {"open", "bad"}
    /\ overall_result' = 0
    /\ check_no' = 1
    /\ cpc' = "loop"
    /\ UNCHANGED <<engineVars, tokenizerVars, cliVars, schedVars, importVars, closes, check_log,
                   check_return, bad_used>>

\* check_database, one turn of "for check in CHECKLIST".
run_check ==
    /\ cpc = "loop"
    /\ check_no <= Len(CHECKLIST)
    /\ \E state \in CheckResults(CHECKLIST[check_no], check_conn) :
         /\ check_log' = Append(check_log, [check |-> CHECKLIST[check_no], ret |-> state])
         /\ IF StopsChecks(state)
            THEN /\ closes' = closes + 1
                 /\ check_return' = 1
                 /\ cpc' = "returned"
                 /\ UNCHANGED <<overall_result, check_no>>
            ELSE /\ overall_result' = IF CountsAsFailure(state) THEN 1 ELSE overall_result
                 /\ check_no' = check_no + 1
                 /\ UNCHANGED <<closes, check_return, cpc>>
    /\ bad_used' = (bad_used \/ (check_conn = "bad" /\ UsesConnection(CHECKLIST[check_no])))
    /\ UNCHANGED <<engineVars, tokenizerVars, cliVars, schedVars, importVars, check_conn>>

\* check_database after the loop: "conn.close(); return overall_result".
check_database_returns ==
    /\ cpc = "loop"
    /\ check_no > Len(CHECKLIST)
    /\ closes' = closes + 1
    /\ check_return' = overall_result
    /\ cpc' = "returned"
    /\ UNCHANGED <<engineVars, tokenizerVars, cliVars, schedVars, importVars, check_conn, check_no,
                   check_log, overall_result, bad_used>>

\* check_database(config) has been called.
InitCheck ==
    /\ EngineOff
    /\ ImporterOff
    /\ PhraseOff
    /\ CountryOff
    /\ LruOff
    /\ AnalyzerOff
    /\ cpc = "connect"
    /\ check_conn = "none"
    /\ closes = 0
    /\ check_no = 1
    /\ check_log = <<>>
    /\ overall_result = 0
    /\ check_return = -1
    /\ bad_used = FALSE

NextCheck ==
    \/ check_database_connect
    \/ run_check
    \/ check_database_returns

SpecCheck == InitCheck /\ [][NextCheck]_vars

\* ------------------------------------------------------------ properties
\* index() is between its first fetch and its return.
InPass == pc \in {"fetch", "find", "refresh", "wait", "index_done"}

\* C1: when a pass returns without error, every row its cursor returned is
\* covered by an UPDATE that has completed and the row has
\* indexed_status = 0; likewise every row of a slice when the worker has
\* yielded its last count.
C1_EnumeratedRowsIndexed ==
    /\ pc = "index_done" =>
         \A r \in enumerated : r \in applied /\ issued[r] >= 1 /\ status[r] = 0
    /\ at \in {"final", "idle"} =>
         \A r \in enumerated : r \in applied /\ issued[r] >= 1 /\ status[r] = 0

C1_Witness ==
    /\ pc = "index_done"
    /\ num_threads >= 2
    /\ Cardinality(enumerated) >= 2

\* C2: no row is named by two UPDATE commands of one pass, nor by two
\* UPDATE commands of one slice.
C2_NoRowUpdatedTwice == \A r \in Rows : issued[r] <= 1

C2_Witness ==
    \E c, d \in Threads :
        /\ c # d
        /\ conn[c].st = "busy" /\ conn[c].sql = "update"
        /\ conn[d].st = "busy" /\ conn[d].sql = "update"

\* C3: when a pass returns, and when the next pass starts, no connection
\* has a command in flight and the cursor of the pass is closed.
C3_PassBarrier ==
    pc \in {"index_done", "index"} =>
        /\ ~cursorOpen
        /\ \A c \in Threads : ~InFlight(conn[c])

C3_Witness ==
    /\ pc = "index"
    /\ passNo <= Len(Passes)
    /\ num_threads >= 2
    /\ Cardinality(applied) >= 2

\* C4: in index_full, a RankRunner pass of a rank b >= 1 starts only after
\* the RankRunner passes of all ranks 1..b-1, in ascending order, and while
\* it runs every placex row of a lower non-zero address rank is indexed.
C4_LowerRanksFirst ==
    command.op = "index_full" =>
        /\ \A j \in DOMAIN passLog :
             (passLog[j].runner.name = "rank" /\ passLog[j].runner.rank >= 1) =>
                 {passLog[i].runner.rank : i \in {k \in 1..(j - 1) :
                        passLog[k].runner.name = "rank" /\ passLog[k].runner.rank >= 1}}
                    = 1..(passLog[j].runner.rank - 1)
        /\ (InPass /\ CurPass.runner.name = "rank" /\ CurPass.runner.rank >= 1) =>
             \A r \in Rows :
                 (/\ kind[r].tbl = "placex"
                  /\ kind[r].rank_address >= 1
                  /\ kind[r].rank_address < CurPass.runner.rank) => status[r] = 0

C4_Witness ==
    /\ command.op = "index_full"
    /\ pc = "find"
    /\ CurPass.runner = RankRunner(30)
    /\ \E r \in Rows : kind[r].rank_address = 4
    /\ \E r \in Rows : kind[r].rank_address = 16

\* C5: index_full starts its five stages in the order index_by_rank(0, 4),
\* index_boundaries(0, 30), index_by_rank(5, 25), index_by_rank(26, 30),
\* index_postcodes(), each after the previous one has closed its
\* connections, and has run all five when it returns.
C5_Stages ==
    << [op |-> "index_by_rank", min |-> 0, max |-> 4],
       [op |-> "index_boundaries", min |-> 0, max |-> 30],
       [op |-> "index_by_rank", min |-> 5, max |-> 25],
       [op |-> "index_by_rank", min |-> 26, max |-> 30],
       [op |-> "index_postcodes", min |-> 0, max |-> 0] >>

C5_StageOrder ==
    command.op = "index_full" =>
        /\ Len(stageLog) <= 5
        /\ stageLog = SubSeq(C5_Stages, 1, Len(stageLog))
        /\ pc = "setup" =>
             /\ Len(stageLog) = stage - 1
             /\ \A c \in Threads : conn[c].st \in {"none", "closed"}
        /\ pc = "done" =>
             /\ Len(stageLog) = 5
             /\ passLog = index_by_rank(0, 4) \o index_boundaries(0, 30)
                            \o index_by_rank(5, 25) \o index_by_rank(26, 30)
                            \o index_postcodes

C5_Witness ==
    /\ command.op = "index_full"
    /\ pc = "done"
    /\ \A r \in Rows : status[r] = 0

\* C6: index_by_rank(minrank, maxrank) with maxrank >= 30 runs the passes
\* of the ranks max(1, minrank)..29 with batch size 1 and then exactly
\* RankRunner(0) with batch size 1, InterpolationRunner with batch size 20
\* and RankRunner(30) with batch size 20.
C6_Tail ==
    << [runner |-> [name |-> "rank", rank |-> 0], batch |-> 1],
       [runner |-> [name |-> "interpolation", rank |-> 0], batch |-> 20],
       [runner |-> [name |-> "rank", rank |-> 30], batch |-> 20] >>

C6_RankThirtyTail ==
    (command.op = "index_by_rank" /\ command.max >= 30 /\ pc = "done") =>
        LET first == IF command.min > 1 THEN command.min ELSE 1
        IN  passLog = [i \in 1..(30 - first) |->
                         [runner |-> [name |-> "rank", rank |-> first + i - 1],
                          batch |-> 1]] \o C6_Tail

C6_Witness ==
    /\ command.op = "index_by_rank"
    /\ command.min = 16
    /\ command.max = 31
    /\ pc = "done"
    /\ Len(passLog) = 17

\* C7: after continue_slice has returned, its result is -1 exactly when the
\* worker has no slice in progress, 0 only when the command is still in
\* flight and no completion was seen during the call, and otherwise the
\* number of rows whose completion was seen during the call.
C7_ContinueSliceResult ==
    returned =>
        /\ ret >= -1
        /\ (ret = -1) <=> ~in_progress
        /\ ret = -1 => sent = 0
        /\ ret = 0 => (InFlight(worker_conn) /\ observed = {})
        /\ ret > 0 => ret = Cardinality(observed)

\* C8: when the slice has yielded its last count, the positive results of
\* continue_slice add up to the number of rows of the slice that were
\* updated.
C8_ProgressOncePerBatch ==
    at = "final" => reported = Cardinality(applied)

\* C9: the rows added to the progress meter of a pass never exceed the
\* rows whose UPDATE has completed.
C9_ProgressAfterCompletion ==
    InPass => progress <= Cardinality(applied)

\* C10: no perform is called on a connection whose previous command has not
\* been seen to be done.
C10_PerformOnlyWhenDone == ~overlap

C10_Witness ==
    /\ pc = "fetch"
    /\ command_stat > num_threads
    /\ \E c \in Threads : conn[c].st = "busy"

C12_ConnectionsReleased ==
    pc \in {"done", "analyse", "error"} =>
        /\ indexer_conn # "open"
        /\ ro_conn # "open"
        /\ \A c \in Threads : conn[c].st \in {"none", "closed"}

\* C13: a command that has failed is never sent again: once a connection
\* holds a failed command no pass and no stage is started, and the next
\* thing the client does with that connection raises the error; after the
\* error nothing more happens, no command is sent by the step that raises,
\* and rows that were indexed stay indexed.
C13_FailureIsTerminal ==
    [][/\ \A c \in Threads :
             conn[c].st = "failed" =>
                 /\ passLog' = passLog
                 /\ stageLog' = stageLog
                 /\ conn'[c].st = "failed" \/ pc' = "error"
       /\ pc' = "error" =>
             /\ issued' = issued
             /\ passLog' = passLog
             /\ \A r \in applied' : status'[r] = 0
       /\ pc = "error" => (pc' = "error" /\ stageLog' = stageLog)
       /\ \A r \in Rows : status[r] = 0 => status'[r] = 0]_vars

C13_Witness ==
    /\ pc = "error"
    /\ applied # {}
    /\ \E r \in Rows : issued[r] = 1 /\ r \notin applied
    /\ passNo < Len(Passes)

\* A slice has been started and has not ended.
InSlice == at \in {"start", "prefetch_poll", "prefetch_wait", "loop", "update_poll",
                   "update_wait"}

\* C14, as claimed: once the limit of rows has been processed over the
\* worker's connection, the connection has been opened again.
C14_ReopenedAfterLimit == on_conn >= ReconnectAfter => reopened

\* C14, amended: the worker opens its connection again at the start of the
\* first slice that begins after more rows than the limit were processed
\* over it, so a slice begins on a connection with at most the limit of
\* rows, and no connection processes more than the limit plus one slice.
C14_ReconnectBound ==
    /\ on_conn <= ReconnectAfter + MaxSlice
    /\ InSlice => _place_count <= ReconnectAfter
    /\ at = "start" => on_conn <= ReconnectAfter
    /\ (at = "idle" /\ on_conn > ReconnectAfter) => MustReconnect

C14_Witness ==
    /\ reopened
    /\ on_conn = ReconnectAfter + MaxSlice

\* n / b rounded up, and the concatenation of a sequence of batches.
C15_Ceil(n, b) == (n + b - 1) \div b

RECURSIVE C15_Concat(_)
C15_Concat(bs) == IF bs = <<>> THEN <<>> ELSE Head(bs) \o C15_Concat(Tail(bs))

\* C15: when a slice of n rows has been processed with batch size b, exactly
\* ceil(n / b) UPDATE commands were sent, each with at most b rows, and the
\* batches in the order sent make up the slice; likewise the UPDATE
\* commands of a pass of the Indexer and the rows of its cursor.
C15_BatchesCoverSlice ==
    /\ at = "final" =>
          /\ Len(batches) = C15_Ceil(Len(ids), batch_size)
          /\ \A i \in DOMAIN batches : Len(batches[i]) \in 1..batch_size
          /\ C15_Concat(batches) = ids
          /\ Range(ids) = enumerated
    /\ pc = "index_done" =>
          /\ Len(batches) = C15_Ceil(Cardinality(enumerated), CurPass.batch)
          /\ \A i \in DOMAIN batches : Len(batches[i]) \in 1..CurPass.batch
          /\ Range(C15_Concat(batches)) = enumerated
          /\ Len(C15_Concat(batches)) = Cardinality(enumerated)
    \* 1000 rows with batch size 20: in slices of 300, 300, 300 and 100 rows,
    \* and in one pass of the Indexer.
    /\ 3 * C15_Ceil(300, 20) + C15_Ceil(100, 20) = 50
    /\ C15_Ceil(1000, 20) = 50

C15_Witness ==
    /\ at = "final"
    /\ Len(ids) = 3
    /\ batch_size = 2
    /\ Len(batches) = 2

\* C16: a slice has a prefetch exactly when the runner has
\* sql_get_object_info; no UPDATE is sent before the prefetch has completed;
\* the rows the prefetch returned are the id list from then on and the
\* batches of the UPDATE commands are cut from them in order; without a
\* prefetch the batches are cut from the ids as given.
C16_PrefetchIffObjectInfo ==
    /\ ((InSlice /\ at # "start") \/ at = "final") =>
          (prefetch # "none" <=> HasObjectInfo(runner))
    /\ (InSlice /\ at # "start" /\ HasObjectInfo(runner) /\ batches # <<>>) =>
          prefetch = "done"
    /\ prefetch = "sent" => (batches = <<>> /\ issued = [r \in Rows |-> 0])
    /\ prefetch = "done" =>
          /\ ids = fetched
          /\ Range(fetched) = enumerated
          /\ C15_Concat(batches) = SubSeq(fetched, 1, Len(C15_Concat(batches)))
    /\ (runner = PostcodeRunner /\ at # "off") =>
          /\ prefetch = "none"
          /\ worker_conn.sql # "select"
          /\ C15_Concat(batches) = SubSeq(ids, 1, Len(C15_Concat(batches)))

C16_Witness ==
    /\ at = "final"
    /\ prefetch = "done"
    /\ fetched # SliceOf(enumerated)
    /\ Len(batches) >= 2

\* C17: index_by_rank(0, 0) has run no pass and has updated no row when it
\* returns.
C17_RankZeroNoOp ==
    (command = ByRank(0, 0) /\ pc = "done") =>
        /\ passLog = <<>>
        /\ \A r \in Rows : status[r] > 0

\* C18: index_boundaries(minrank, maxrank) runs the BoundaryRunner passes of
\* exactly the ranks r with max(minrank, 4) <= r < min(maxrank, 26), in
\* ascending order and with batch size 1, and no pass when there is no such
\* rank; rows are updated by those passes only.
C18_BoundaryRanks ==
    (command.op = "index_boundaries" /\ pc = "done") =>
        LET lo == IF command.min > 4 THEN command.min ELSE 4
            hi == IF command.max < 26 THEN command.max ELSE 26
        IN  /\ passLog = [i \in 1..(hi - lo) |->
                             [runner |-> [name |-> "boundary", rank |-> lo + i - 1],
                              batch |-> 1]]
            /\ hi <= lo => passLog = <<>>
            /\ \A r \in Rows :
                  status[r] = 0 <=>
                      /\ kind[r].tbl = "placex" /\ kind[r].boundary
                      /\ lo <= kind[r].rank_search /\ kind[r].rank_search < hi

C18_Witness ==
    /\ command = Boundaries(0, 30)
    /\ pc = "done"
    /\ Len(passLog) = 22
    /\ \A r \in Rows : status[r] = 0

\* The rows of word that are neither a housenumber nor a postcode term nor
\* the token of a name.
C20_PhraseRows ==
    {x \in Stored(word) :
        x.class # NULL /\ ~(x.class = "place" /\ x.type \in {"house", "postcode"})}

\* C19: a run of update_special_phrases with the phrases of the run before
\* adds nothing and deletes nothing.
C19_PhrasesIdempotent ==
    (repeat /\ tpc \in {"insert", "delete", "idle"}) =>
        (to_add = {} /\ to_delete = {})

\* C20: when update_special_phrases has returned, the phrase rows of word
\* are exactly the normalised phrases passed, each stored once.
C20_ExactlyNewPhrases ==
    tpc = "idle" =>
        /\ C20_PhraseRows = {InsertedRow(p) : p \in norm_phrases(phrases)}
        /\ \A p \in norm_phrases(phrases) : word[InsertedRow(p)] = 1

\* C21: while update_special_phrases has obsolete phrases to delete, and
\* after its DELETE has failed, no other connection sees a phrase that the
\* call has added.
C21_SingleTransaction ==
    (tpc \in {"delete", "failed"} /\ to_delete # {}) =>
        \A p \in to_add :
            IsPhraseRow(InsertedRow(p)) => visible[InsertedRow(p)] = 0

\* The rows of word that are housenumber or postcode terms.
C22_Reserved == {x \in WordRows : x.class = "place" /\ x.type \in {"house", "postcode"}}

\* C22: no housenumber or postcode term is among the existing phrases or
\* among the phrases to delete, and no step of update_special_phrases or of
\* the removal of phrases takes a housenumber or postcode term out of word.
C22_ReservedRowsKept ==
    [][/\ \A p \in existing_phrases(word) \cup to_delete' :
            ~(p[2] = "place" /\ p[3] \in {"house", "postcode"})
       /\ \A x \in C22_Reserved : word'[x] >= word[x]]_vars

\* C22 witness: a run has deleted obsolete phrases, one of the phrases
\* passed has the class and type of a housenumber term, and the
\* housenumber and postcode terms are still stored.
C22_Witness ==
    /\ tpc \in {"idle", "removed"}
    /\ to_delete # {}
    /\ \E p \in phrases : p[2] = "place" /\ p[3] = "house"
    /\ word[HousenumberRow] >= 1
    /\ word[PostcodeRow] = 1

\* C23: when no two INSERTs of add_country_names ran at the same time, no
\* pair of a word_token and a country code of two lower-case letters is in
\* more than one row, and a call with the arguments of the call before has
\* stored nothing.
C23_CountryNamesIdempotent ==
    ~overlapped =>
        /\ \A pr \in CountryPairs : IsCountryCode(pr[2]) => country_rows[pr] <= 1
        /\ \A a \in Analyzers :
              (arepeat[a] /\ apc[a] = "done" /\ IsCountryCode(acode[a])) => aadded[a] = 0

\* C24: when every analyzer has added one name with the same token, not
\* an empty one, for the same country code, in one call each, word holds
\* exactly one row for the pair.
C24_InsertersConverge ==
    \A pr \in CountryPairs :
        (/\ IsCountryCode(pr[2])
         /\ pr[1] # CountryToken("")
         /\ \A a \in Analyzers :
               /\ apc[a] = "done" /\ acalls[a] = 1 /\ acode[a] = pr[2]
               /\ Len(anames[a]) = 1
               /\ CountryToken(make_standard_word(anames[a][1])) = pr[1])
        => country_rows[pr] = 1

\* The key the last get took out of the cache, if any.
C26_Evicted == DictKeys(lru_before) \ DictKeys(lru_data)

\* C26: the cache never holds more entries than its capacity; a get of a
\* key that was in the cache returns the stored value, does not call the
\* generator, leaves the key the most recently used and evicts nothing; a
\* get of another key calls the generator once, stores the result as the
\* most recently used entry, and evicts the least recently used entry if
\* the cache was full and nothing otherwise.
C26_StrictLRU ==
    /\ Len(lru_data) <= lru_maxsize
    /\ lru_gets > 0 =>
         /\ lru_data[Len(lru_data)][1] = lru_key
         /\ IF LruHitAnyValue(lru_before, lru_key)
            THEN /\ lru_generated = 0
                 /\ lru_value = DictGet(lru_before, lru_key)
                 /\ C26_Evicted = {}
            ELSE /\ lru_generated = 1
                 /\ DictGet(lru_data, lru_key) = lru_value
                 /\ C26_Evicted = IF Len(lru_before) >= lru_maxsize
                                  THEN {lru_before[1][1]} ELSE {}

\* C30: the run sets import_status.indexed only when it was called without
\* --boundaries-only and --no-boundaries and with minrank 0 and maxrank 30
\* and index_boundaries and index_by_rank have both returned; a run with
\* these arguments that returns has set it, and a run that an exception
\* has left has not.
C30_IndexedIffFullSuccess ==
    /\ indexed =>
          /\ ~args.no_boundaries /\ ~args.boundaries_only
          /\ args.minrank = 0 /\ args.maxrank = 30
          /\ completed = {"index_boundaries", "index_by_rank"}
          /\ cli = "returned"
    /\ (/\ cli = "returned"
        /\ ~args.no_boundaries /\ ~args.boundaries_only
        /\ args.minrank = 0 /\ args.maxrank = 30) => indexed

\* C30 witness: a full indexing has returned and the status is set, after
\* passes that indexed rows.
C30_Witness ==
    /\ indexed
    /\ cli = "returned"
    /\ \A r \in Rows : status[r] = 0

\* The queries of the last call that call the function fn.
QueriesOf(fn) == SelectSeq(queries, LAMBDA q : q[1] = fn)

\* C25: a call made through one analyzer leaves the entries of the other
\* analyzers in the cache of address terms as they were, and no analyzer is
\* used by two workers.
C25_CachesPrivate ==
    (scenario = "icu" /\ processed > 0) =>
        /\ {k \in Range(addr_before) : k[1] # analyzer}
             = {k \in Range(addr_cache) : k[1] # analyzer}
        /\ \A a \in IcuAnalyzers : Cardinality(used_by[a]) <= 1

\* C27: when the normalised postcode of a place is in the postcode cache,
\* processing the place calls create_postcode_id not at all and takes no
\* postcode out of the cache.
C27_PostcodeCacheHit ==
    (/\ scenario = "legacy" /\ processed > 0
     /\ last_place.postcode \notin {Absent, NoValue}
     /\ ~HasSeparator(last_place.postcode, {":", ",", ";"})
     /\ NormalizedPostcode(last_place.postcode) \in DictKeys(pcache_before))
    => /\ QueriesOf("create_postcode_id") = <<>>
       /\ DictKeys(pcache_before) \subseteq DictKeys(pcache)

\* The trimmed parts of the housenumber values hnrs.
C28_Parts(hnrs) ==
    UNION {{Strip(x) : x \in Range(Split(hnrs[i], {";", ","}))} : i \in DOMAIN hnrs}

\* C28: a place with exactly one housenumber value that is the decimal
\* string of a number from 1 to 100 gets the precomputed token of that
\* number without a query for the housenumber; for every other housenumber
\* input one query sends the trimmed parts of the values, each once.
C28_HousenumberCache ==
    (processed > 0 /\ ~raised /\ last_place.hnrs # <<>>) =>
        LET hnrs == last_place.hnrs
            calls == QueriesOf("create_housenumbers")
        IN  IF Len(hnrs) = 1 /\ \E n \in 1..100 : hnrs[1] = Str(n)
            THEN /\ \E n \in 1..100 :
                      hnrs[1] = Str(n) /\ token_info.hnr_tokens = HousenumberToken(n)
                 /\ calls = <<>>
            ELSE /\ Len(calls) = 1
                 /\ Range(calls[1][2]) = C28_Parts(hnrs)
                 /\ Len(calls[1][2]) = Cardinality(C28_Parts(hnrs))

\* C28 witness: after other places, a place with the single housenumber
\* 100 got the precomputed token without a query.
C28_Witness ==
    /\ processed >= 2
    /\ last_place.hnrs = << <<"1", "0", "0">> >>
    /\ token_info.hnr_tokens = HousenumberToken(100)
    /\ queries = <<>>

\* The name and the housenumbers of the last place have been tokenized.
C29_OthersTokenized ==
    /\ last_place.name # Absent => (token_info.names # NoToken /\ QueriesOf("names") # <<>>)
    /\ last_place.hnrs # <<>> => token_info.hnr_tokens # NoToken

\* C29: for a place whose postcode holds ':', ',' or ';' no call of
\* create_postcode_id is made and the postcode caches stay as they were,
\* for a place whose country_feature is not two ASCII letters no country
\* names are added; in both cases no exception is raised and the name and
\* the housenumbers of the place are tokenized.
C29_MalformedSkipped ==
    processed > 0 =>
        /\ (/\ last_place.postcode \notin {Absent, NoValue}
            /\ HasSeparator(last_place.postcode, {":", ",", ";"}))
           => /\ QueriesOf("create_postcode_id") = <<>>
              /\ pcache = pcache_before
              /\ ~raised
              /\ C29_OthersTokenized
        /\ (/\ last_place.country_feature # Absent
            /\ ~(/\ Len(last_place.country_feature) = 2
                 /\ \A i \in 1..2 : last_place.country_feature[i] \in AsciiLetters))
           => /\ QueriesOf("add_country_names") = <<>>
              /\ QueriesOf("_add_normalized_country_names") = <<>>
              /\ ~raised
              /\ C29_OthersTokenized

\* C29 witness: a place with a postcode "a;b", the country_feature "deu",
\* a name and a housenumber has been processed, and its name and
\* housenumber were tokenized.
C29_Witness ==
    /\ processed > 0
    /\ last_place.postcode = <<"a", ";", "b">>
    /\ last_place.country_feature = <<"d", "e", "u">>
    /\ token_info.names # NoToken
    /\ token_info.hnr_tokens = HousenumberToken(7)
    /\ queries = <<Query("names", << <<"n">> >>)>>


\* The batches index() has still to send in this pass: the one fetched and
\* waiting for a thread, and those the cursor has still to return.
BatchesLeft ==
    (IF pc = "find" THEN 1 ELSE 0)
      + ((Len(cursor) + CurPass.batch - 1) \div CurPass.batch)

\* Thread t is free while index() sends commands: is_done() would answer
\* True.
C31_Free(t) == t <= num_threads /\ pc \in {"fetch", "find"} /\ IsDone(conn[t])

\* The commands the other threads can be given while a thread is free: the
\* rest of the list, the threads before it in the next list, and once
\* more the threads before it when the connections are refreshed.
MaxBypass == 2 * (num_threads - 1)

\* C31: find_free_thread starves no thread. While a thread is free, the
\* other threads are given at most 2 * (num_threads - 1) commands, so no
\* thread is favoured over it for ever; and when the server finishes the
\* commands in flight, a batch that waits for a thread is sent, and a free
\* thread is given a command (or the pass ends with an error) when more
\* batches remain than can still be given to the other threads.
C31_NoStarvation ==
    /\ [](\A t \in Threads : bypassed[t] <= MaxBypass)
    /\ (pc = "find") ~> (pc # "find")
    /\ \A t \in Threads :
         (C31_Free(t) /\ BatchesLeft + bypassed[t] > MaxBypass)
            ~> (Working(conn[t]) \/ pc = "error")

\* C31 witness: the second of two threads has finished its command and
\* was not in the list select() returned, one command has been given to
\* the first thread since, and a batch waits for a thread.
C31_Witness ==
    /\ num_threads = 2
    /\ pc = "find"
    /\ conn[2].st = "ready"
    /\ bypassed[2] = 1
    /\ BatchesLeft = 1


\* The string is not empty and consists of word characters only.
WellFormed(str) == str # <<>> /\ IsWord(str)

\* C32: a call of _check_sanity raises UsageError when the class or the
\* type is empty or holds a character that is no word character, and
\* returns without an error when both are well formed.
C32_CheckSanityRaises ==
    sanity_result # "not called" =>
        IF WellFormed(sanity_args[2]) /\ WellFormed(sanity_args[3])
        THEN sanity_result \in {"None", "True"}
        ELSE sanity_result = "UsageError"


\* The phrase a row of word stands for, as _fetch_existing_words_phrases
\* reads it: a NULL operator is the operator '-'.
RowPhrase(x) == Phrase(x.word, x.class, x.type, IF x.operator = NULL THEN "-" ELSE x.operator)

\* C33: _remove_non_existent_phrases_from_db deletes from word the rows of
\* the phrases that are in words_phrases_to_delete and not in
\* words_phrases_still_exist, a NULL operator standing for '-', and leaves
\* every other row as it is; it drops the tables of
\* table_phrases_to_delete and no other table.
C33_RemovesExactly ==
    [][(revision = "old" /\ ipc = "remove" /\ ipc' = "done") =>
          /\ \A x \in WordRows :
                word'[x] = IF /\ x.class # NULL
                              /\ RowPhrase(x) \in words_phrases_to_delete
                              /\ RowPhrase(x) \notin words_phrases_still_exist
                           THEN 0
                           ELSE word[x]
          /\ \A t \in ptables : t \in ptables' <=> t \notin table_phrases_to_delete
          /\ ptables' \subseteq ptables]_vars

\* C33 witness: the rows of a phrase with the operator '-' are gone, a
\* phrase that still exists is kept although it was in
\* words_phrases_to_delete, a table was dropped and a table is left.
C33_Witness ==
    /\ revision = "old"
    /\ ipc = "done"
    /\ word[WordRow("a", "amenity", "pub", NULL)] = 0
    /\ Phrase("a", "amenity", "pub", "in") \in words_phrases_still_exist
    /\ word[WordRow("a", "amenity", "pub", "in")] = 1
    /\ word[HousenumberRow] = 1
    /\ dropped # {}
    /\ ptables # {}


\* The names of the tables of the class/type pairs of the accepted phrases.
AcceptedTables == {TableName(ph[2], ph[3]) : ph \in word_phrases}

\* C38: after import_from_wiki the place_classtype tables are those of the
\* class/type pairs of the accepted phrases: the table of every accepted
\* pair exists, a table that existed before is dropped exactly when no
\* accepted phrase has its name, and a table that existed before and is
\* still named by a phrase is neither dropped nor created.
C38_TablesReconciled ==
    (revision = "new" /\ ipc = "done") =>
        /\ \A t \in AcceptedTables : t \in ptables
        /\ \A t \in tables_before :
              /\ (t \in dropped <=> t \notin AcceptedTables)
              /\ (t \in dropped <=> t \notin ptables)
              /\ t \in AcceptedTables => t \notin created
        /\ ptables \subseteq AcceptedTables

\* C38 witness: an import has kept a table, dropped a table and created a
\* table.
C38_Witness ==
    /\ revision = "new"
    /\ ipc = "done"
    /\ tables_before \cap ptables # {}
    /\ dropped # {}
    /\ created # {}


\* The phrase has passed every filter of _process_xml_content.
PassedFilters(ph) ==
    /\ ph.operator \in {Near, In, Dash}
    /\ ~(ph.class \in DOMAIN BlackList /\ ph.type \in BlackList[ph.class])
    /\ ph.class \in DOMAIN WhiteList => ph.type \in WhiteList[ph.class]
    /\ WellFormed(ph.class)
    /\ WellFormed(ph.type)

\* C40: every phrase _process_xml_content has added to word_phrases has an
\* operator 'near', 'in' or '-', a class/type pair that is not on the
\* black list, a type of the white list when its class has one, and a
\* class and a type of word characters only; and the turn of the loop for
\* a match that fails one of the filters adds no phrase and no pair and
\* leaves the loop running.
C40_OnlyFilteredPhrases ==
    /\ [](\A p \in word_phrases :
             PassedFilters([label |-> p[1], class |-> p[2], type |-> p[3], operator |-> p[4]]))
    /\ [][(ipc = "process" /\ matched' = matched + 1 /\ ~PassedFilters(PhraseOf(last_entry')))
             => /\ word_phrases' = word_phrases
                /\ class_type_pairs' = class_type_pairs
                /\ ipc' = "process"]_vars

\* C34: one call of continue_slice sends at most one command, the prefetch
\* or one UPDATE, whatever is_done() answers: the worker returns to the pool
\* after each command it has sent.
C34_OneCommandPerCall == sent <= 1

\* C35: every pass terminates when the commands sent complete. An
\* operation of the Indexer that was called returns or raises; when it has
\* returned every row its cursors returned is updated and no command is in
\* flight; find_free_thread calls select() only with a command in flight.
\* A slice that was started reaches its -1, or the call raises, and the
\* worker then has no slice and no command in flight.
SelectCalled == pc = "find" /\ pos > Len(ready) /\ command_stat <= RefreshAfter
C35_PassTerminates ==
    /\ (pc \notin {"off", "done", "error"}) ~> (pc \in {"done", "error"})
    /\ in_progress ~> ((WorkerIsIdle /\ ~in_progress) \/ at = "error")
    /\ [](SelectCalled => \E c \in Range(ThreadSeq) : InFlight(conn[c]))
    /\ [](pc = "done" => /\ \A r \in enumerated : status[r] = 0
                         /\ \A c \in Threads : ~InFlight(conn[c]))
    /\ []((WorkerIsIdle /\ at = "idle") => ~InFlight(worker_conn))
C35_Witness ==
    /\ pc = "done"
    /\ command = Full
    /\ num_threads = 2
    /\ command_stat > 0
    /\ \A r \in Rows : status[r] = 0

\* C36: in the token information tokenize returns for an address with a
\* street or a place that has a standard form, street_search and
\* place_search hold the result of word_ids_from_name and street_match and
\* place_match hold the token of getorcreate_name_id.
TermsInPlace(name, from_word_ids, from_name_id) ==
    (name # Absent /\ Lower(name) # <<>>) =>
        /\ from_word_ids = Token("word_ids_from_name", <<Lower(name)>>)
        /\ from_name_id = Token("getorcreate_name_id", <<Lower(name)>>)
C36_SearchAndMatchTerms ==
    (scenario = "icu" /\ processed > 0) =>
        /\ TermsInPlace(last_place.street, token_info.street_search, token_info.street_match)
        /\ TermsInPlace(last_place.place, token_info.place_search, token_info.place_match)

\* C36, amended: street_match and place_match hold the result of
\* word_ids_from_name and street_search and place_search hold the token of
\* getorcreate_name_id; a key the address does not have is not set, and a
\* value without a standard form gives '{}' for both.
TermsSet(name, match, search) ==
    /\ TermsInPlace(name, match, search)
    /\ name = Absent => (match = NoToken /\ search = NoToken)
    /\ (name # Absent /\ Lower(name) = <<>>) => (match = EmptyArray /\ search = EmptyArray)
C36_MatchAndSearchTerms ==
    (scenario = "icu" /\ processed > 0) =>
        /\ TermsSet(last_place.street, token_info.street_match, token_info.street_search)
        /\ TermsSet(last_place.place, token_info.place_match, token_info.place_search)
C36_Witness ==
    /\ scenario = "icu"
    /\ processed > 0
    /\ last_place.street = <<"s">>
    /\ last_place.place = <<"p">>
    /\ token_info.street_match = Token("word_ids_from_name", << <<"s">> >>)
    /\ token_info.place_search = Token("getorcreate_name_id", << <<"p">> >>)

\* C37: when index_full has returned without an error it has run exactly
\* one RankRunner pass for every rank 0..30, one BoundaryRunner pass for
\* every rank 4..25, one InterpolationRunner pass and one PostcodeRunner
\* pass, and no other pass.
TimesRun(obj) == Cardinality({i \in DOMAIN passLog : passLog[i].runner = obj})
RunnersOfFull ==
    {RankRunner(k) : k \in 0..30}
      \cup {BoundaryRunner(k) : k \in 4..25}
      \cup {InterpolationRunner, PostcodeRunner}
C37_EveryPassOnce ==
    (command = Full /\ pc = "done") =>
        /\ \A obj \in RunnersOfFull : TimesRun(obj) = 1
        /\ \A i \in DOMAIN passLog : passLog[i].runner \in RunnersOfFull
C37_Witness ==
    /\ command = Full
    /\ pc = "done"
    /\ num_threads = 2
    /\ TimesRun(BoundaryRunner(16)) = 1
    /\ \A r \in Rows : status[r] = 0

\* C39: check_database runs the checks in the order of CHECKLIST and no
\* check after one that returned FATAL; when it has returned, the
\* connection was closed once, the result is 1 when the last check run
\* returned FATAL, and else every check was run and the result is 1 when a
\* check returned FAIL and 0 when none did. With a connection that could
\* not be opened the first check returns FATAL and no check uses the
\* connection.
ResultsOfChecks == {check_log[i].ret : i \in DOMAIN check_log}
====
